---- MODULE Spec2Model ----
(***************************************************************************)
(* Random quantum-circuit generators and bug injectors.                    *)
(*                                                                         *)
(* Part I   deepseek_rcg.py    RandomQuantumCircuitGenerator and           *)
(*                             QuantumBugInjector, circuits as dicts whose *)
(*                             gate dicts live on a heap (Python object    *)
(*                             references), so that aliasing between the   *)
(*                             caller's circuit and the returned one is    *)
(*                             visible.                                    *)
(*                                                                         *)
(* Part II  perplexity_rcg.py  BugInjector.inject_bugs on a QuantumCircuit *)
(*                             whose data is a list of instructions.       *)
(*                                                                         *)
(* Part III chatgpt_rcg.py, quantum_circuit_generator.py and               *)
(*          random_circuit_generator.py                                    *)
(*                             build_quantum_circuit: the placement loop   *)
(*                             over layers and qubits.                     *)
(*                                                                         *)
(* Part IV  gemini_rcg.py      QuantumCircuitLab.generate_random_circuit   *)
(*                             and inject_bug.                             *)
(*                                                                         *)
(* Part V   chatgpt_rcg.py     parse_gate_list on a string, then pick_gate *)
(*                             on the list it returned.                    *)
(*                                                                         *)
(* Part VI  perplexity_rcg.py  RandomCircuitGenerator.generate.            *)
(*                                                                         *)
(* Part VII deepseek_rcg.py    generate_circuit(add_bugs = True) and       *)
(*                             generate_multiple_circuits on one           *)
(*                             generator, whose injector keeps one log.    *)
(*                                                                         *)
(* A run executes one of the programs; the variables of the other programs *)
(* stay at their idle values.                                              *)
(*                                                                         *)
(* Python indices are 0-based; sequences here are 1-based.  Every index    *)
(* that the code stores (a bug record's location, qubit numbers) is kept   *)
(* 0-based and converted at the point of access with At / SetAt.           *)
(***************************************************************************)
EXTENDS Integers, Sequences, FiniteSets, TLC

(***************************************************************************)
(* Bounds of the model.                                                    *)
(***************************************************************************)
\* Largest depth handed to RandomQuantumCircuitGenerator.
MaxDepth == 2

\* RandomQuantumCircuitGenerator.__init__(n_qubits = 3): the qubit counts
\* explored are 1 .. the constructor's default.
DefaultQubits == 3

(***************************************************************************)
(* Sampling of the random source.  random.choice / random.uniform can      *)
(* return any member of their range; generation explores the outcomes      *)
(* below (one gate kind per arity and parameter class), injection explores *)
(* every outcome of the code's lists.                                      *)
(***************************************************************************)
SampledSingle == {"X", "RX"}
SampledTwo == {"CNOT", "CPHASE"}
\* random.uniform(0, 2*pi), in abstract angle units
SampledAngles == {4}
\* random.uniform(-pi/2, pi/2), in the same units; the draw can be exactly 0
SampledErrors == {0 - 1, 0, 1}

(***************************************************************************)
(* Generic helpers for Python lists.                                       *)
(***************************************************************************)
Range(s) == {s[i] : i \in 1..Len(s)}

\* s[i] for a 0-based i
At(s, i) == s[i + 1]

\* s[i] = v for a 0-based i
SetAt(s, i, v) == [s EXCEPT ![i + 1] = v]

\* the list without its last position, whatever i
PopLast(s, i) == SubSeq(s, 1, Len(s) - 1)

\* list.pop(i) for a 0-based i: the list without position i
Pop(s, i) == SubSeq(s, 1, i) \o SubSeq(s, i + 2, Len(s))

\* list.insert(i, v) for a 0-based i
Insert(s, i, v) == SubSeq(s, 1, i) \o <<v>> \o SubSeq(s, i + 1, Len(s))

\* range(n)
PyRange(n) == 0..(n - 1)

\* every member of s, v included
OthersOrSame(s, v) == Range(s)

\* [x for x in s if x # v], kept as the set random.choice draws from
Others(s, v) == Range(s) \ {v}

\* random.sample(range(n), 2): ordered pairs of distinct members
Sample2(n) == {<<a, b>> : a \in PyRange(n), b \in PyRange(n)} \ {<<a, a>> : a \in PyRange(n)}

(***************************************************************************)
(* Part I: deepseek_rcg.py                                                 *)
(***************************************************************************)
BUG_TYPES == <<"gate_error", "parameter_error", "qubit_error", "control_error",
               "missing_gate", "extra_gate", "measurement_error", "timing_error",
               "decoherence_error", "crosstalk_error">>

\* A bug kind of the taxonomy that BUG_TYPES does not list.
UnknownBugType == "arity_corruption"

\* RandomQuantumCircuitGenerator.single_qubit_gates / two_qubit_gates
single_qubit_gates == <<"X", "Y", "Z", "H", "S", "T", "RX", "RY", "RZ">>
two_qubit_gates == <<"CNOT", "CZ", "SWAP", "CPHASE">>

\* the local lists of _inject_gate_error
gate_error_single_qubit_gates == <<"X", "Y", "Z", "H", "S", "T", "RX", "RY", "RZ">>
gate_error_two_qubit_gates == <<"CNOT", "CZ", "SWAP", "CPHASE">>

\* the local lists of _inject_extra_gate
extra_single_qubit_gates == <<"X", "Y", "Z", "H", "S", "T">>
extra_two_qubit_gates == <<"CNOT", "CZ">>

\* the list tested by _inject_parameter_error
rotation_types == {"RX", "RY", "RZ", "CPHASE"}

bases == <<"X", "Y", "Z">>

\* The kinds that carry a 'parameter' in generate_circuit.
RequiresParameter(type) == type \in {"RX", "RY", "RZ", "CPHASE"}

\* A gate dict.  has_param says whether the key 'parameter' is present
\* (parameter is 0 when it is not); layer is -1 when the key 'layer' is
\* absent; flags holds the boolean keys set to True on the dict
\* (is_bug, timing_bug, decoherence_affected, crosstalk_affected) and
\* "parameter_error" when that key is present.
NewGate(type, qubits, layer, has_param, parameter) ==
    [type |-> type, qubits |-> qubits, layer |-> layer,
     has_param |-> has_param, parameter |-> parameter, flags |-> {}]

VARIABLES
    pc,             \* position of the deepseek driver: "gen", "ready", "done", "off"
    n_qubits,       \* RandomQuantumCircuitGenerator.n_qubits
    depth,          \* RandomQuantumCircuitGenerator.depth
    heap,           \* the gate dicts, by object identity (index)
    gates,          \* circuit['gates'] of the caller's circuit: a list of references
    measurements,   \* the list object circuit['measurements'] (shared by dict.copy())
    injected_bugs,  \* QuantumBugInjector.injected_bugs
    bug_type,       \* the bug type of the last inject_bug call (after the None draw)
    pre,            \* heap, measurements and injected_bugs as they were before the call
    ret,            \* the dict returned by the call: its gates list and extra keys
    raised          \* the call ended in an exception

dsvars == <<pc, n_qubits, depth, heap, gates, measurements, injected_bugs,
            bug_type, pre, ret, raised>>

\* The gate dicts a list of references names, in order.
Deref(h, refs) == [i \in 1..Len(refs) |-> h[refs[i]]]

\* The circuit dict as the injector's helpers see it.
Circuit(n, h, g, m, k) ==
    [n_qubits |-> n, heap |-> h, gates |-> g, measurements |-> m, keys |-> k]

Returned(c, info) == [raised |-> FALSE, circuit |-> c, bug_info |-> info]

\* An exception leaves the helper before it assigns anything.
Raises(c) == [raised |-> TRUE, circuit |-> c, bug_info |-> [type |-> "exception"]]

\* circuit['gates'][idx][key] = value on the shared gate dict
SetGate(c, idx, g) == [c EXCEPT !.heap[At(c.gates, idx)] = g]

AddFlag(c, idx, flag) ==
    LET g == c.heap[At(c.gates, idx)]
    IN  SetGate(c, idx, [g EXCEPT !.flags = @ \cup {flag}])

(***************************************************************************)
(* QuantumBugInjector helpers.  Each returns the set of results the        *)
(* helper can produce over the outcomes of its random draws; a result is   *)
(* the circuit after the helper's assignments and the bug_info it returns. *)
(***************************************************************************)

\* _inject_gate_error, for the drawn gate_idx and wrong_gate
gate_error_apply(c, gate_idx, wrong_gate) ==
    LET original_gate == c.heap[At(c.gates, gate_idx)]
    IN  Returned(SetGate(c, gate_idx, [original_gate EXCEPT !.type = wrong_gate]),
                 [type |-> "gate_error", location |-> gate_idx,
                  \* bug_info is built after the assignment from the same dict,
                  \* so 'original_gate' reads the type already overwritten
                  original_gate |-> wrong_gate,
                  wrong_gate |-> wrong_gate])

\* gate_error_choices without the test on the number of qubits
gate_error_choices_any_arity(original_gate) ==
    Others(gate_error_single_qubit_gates \o gate_error_two_qubit_gates, original_gate.type)

\* the list random.choice draws wrong_gate from
gate_error_choices(original_gate) ==
    IF Len(original_gate.qubits) = 1
    THEN Others(gate_error_single_qubit_gates, original_gate.type)
    ELSE Others(gate_error_two_qubit_gates, original_gate.type)

inject_gate_error(c) ==
    IF c.gates = <<>>
    THEN {Returned(c, [type |-> "gate_error", description |-> "No gates to modify"])}
    ELSE UNION {
           {gate_error_apply(c, gate_idx, wrong_gate) :
              wrong_gate \in gate_error_choices(c.heap[At(c.gates, gate_idx)])} :
           gate_idx \in PyRange(Len(c.gates))}

\* rotation_gates = [i for i, g in enumerate(gates) if g['type'] in [...]]
rotation_gates(c) ==
    {i \in PyRange(Len(c.gates)) : c.heap[At(c.gates, i)].type \in rotation_types}

parameter_error_apply(c, gate_idx, error) ==
    LET original_gate == c.heap[At(c.gates, gate_idx)]
        original_param == IF original_gate.has_param THEN original_gate.parameter ELSE 0
        wrong_param == original_param + error
    IN  Returned(SetGate(c, gate_idx,
                         [original_gate EXCEPT !.has_param = TRUE,
                                               !.parameter = wrong_param,
                                               !.flags = @ \cup {"parameter_error"}]),
                 [type |-> "parameter_error", location |-> gate_idx,
                  original_parameter |-> original_param,
                  wrong_parameter |-> wrong_param,
                  error_magnitude |-> error])

inject_parameter_error(c) ==
    IF rotation_gates(c) = {}
    THEN {Returned(c, [type |-> "parameter_error",
                       description |-> "No rotation gates found"])}
    ELSE {parameter_error_apply(c, gate_idx, error) :
            gate_idx \in rotation_gates(c), error \in SampledErrors}

\* every qubit of the circuit, used or not by the gate
qubit_error_any_choices(c, original_gate) == PyRange(c.n_qubits)

\* the lists random.choice draws the wrong qubit from
qubit_error_single_choices(c, original_gate) ==
    {q \in PyRange(c.n_qubits) : q # At(original_gate.qubits, 0)}

qubit_error_pair_choices(c, original_gate) ==
    {q \in PyRange(c.n_qubits) : q \notin Range(original_gate.qubits)}

qubit_error_apply(c, gate_idx, new_qubits) ==
    LET original_gate == c.heap[At(c.gates, gate_idx)]
    IN  Returned(SetGate(c, gate_idx, [original_gate EXCEPT !.qubits = new_qubits]),
                 [type |-> "qubit_error", location |-> gate_idx,
                  \* original_gate is the dict just assigned to, so
                  \* original_gate['qubits'].copy() reads the new list
                  original_qubits |-> new_qubits,
                  wrong_qubits |-> new_qubits])

\* _inject_qubit_error for the drawn gate_idx; random.choice of an empty list
\* raises IndexError
qubit_error_at(c, gate_idx) ==
    LET original_gate == c.heap[At(c.gates, gate_idx)]
    IN  IF Len(original_gate.qubits) = 1
        THEN IF qubit_error_single_choices(c, original_gate) = {}
             THEN {Raises(c)}
             ELSE {qubit_error_apply(c, gate_idx, <<wrong_qubit>>) :
                     wrong_qubit \in qubit_error_single_choices(c, original_gate)}
        ELSE IF qubit_error_pair_choices(c, original_gate) = {}
             THEN {Raises(c)}
             ELSE {qubit_error_apply(c, gate_idx,
                                     <<At(original_gate.qubits, 0), wrong_target>>) :
                     wrong_target \in qubit_error_pair_choices(c, original_gate)}
                  \cup
                  {qubit_error_apply(c, gate_idx,
                                     <<wrong_control, At(original_gate.qubits, 1)>>) :
                     wrong_control \in qubit_error_pair_choices(c, original_gate)}

inject_qubit_error(c) ==
    IF c.gates = <<>>
    THEN {Returned(c, [type |-> "qubit_error", description |-> "No gates to modify"])}
    ELSE UNION {qubit_error_at(c, gate_idx) : gate_idx \in PyRange(Len(c.gates))}

\* QuantumBugInjector defines no _inject_control_error: the attribute lookup
\* in inject_bug raises AttributeError
inject_control_error(c) == {Raises(c)}

missing_gate_apply(c, gate_idx) ==
    LET removed_gate == c.heap[At(c.gates, gate_idx)]
    IN  Returned([c EXCEPT !.gates = Pop(c.gates, gate_idx)],
                 [type |-> "missing_gate", location |-> gate_idx,
                  removed_gate |-> removed_gate])

inject_missing_gate(c) ==
    IF c.gates = <<>>
    THEN {Returned(c, [type |-> "missing_gate", description |-> "No gates to remove"])}
    ELSE {missing_gate_apply(c, gate_idx) : gate_idx \in PyRange(Len(c.gates))}

\* the (gate_type, qubits) pairs _inject_extra_gate can draw:
\* random.random() < 0.7 or n_qubits < 2 takes the single-qubit branch
extra_gate_choices(c) ==
    {<<t, <<q>>>> : t \in Range(extra_single_qubit_gates), q \in PyRange(c.n_qubits)}
    \cup
    (IF c.n_qubits < 2 THEN {}
     ELSE {<<t, qs>> : t \in Range(extra_two_qubit_gates), qs \in Sample2(c.n_qubits)})

\* the dict extra_gate: no 'layer'; 'parameter' only for RX, RY, RZ, which
\* neither list holds
extra_gate_dict(gate_type, qubits) ==
    [NewGate(gate_type, qubits, 0 - 1, gate_type \in {"RX", "RY", "RZ"},
             IF gate_type \in {"RX", "RY", "RZ"} THEN CHOOSE a \in SampledAngles : TRUE ELSE 0)
       EXCEPT !.flags = {"is_bug"}]

extra_gate_apply(c, gate_type, qubits, insert_idx) ==
    LET extra_gate == extra_gate_dict(gate_type, qubits)
        ref == Len(c.heap) + 1
    IN  Returned([c EXCEPT !.heap = Append(c.heap, extra_gate),
                           !.gates = Insert(c.gates, insert_idx, ref)],
                 [type |-> "extra_gate", location |-> insert_idx,
                  extra_gate |-> extra_gate])

inject_extra_gate(c) ==
    {extra_gate_apply(c, ch[1], ch[2], insert_idx) :
       ch \in extra_gate_choices(c), insert_idx \in PyRange(Len(c.gates) + 1)}

measurement_error_apply(c, measurement_idx, wrong_basis) ==
    LET original_measurement == At(c.measurements, measurement_idx)
    IN  Returned([c EXCEPT !.measurements =
                              SetAt(c.measurements, measurement_idx,
                                    [original_measurement EXCEPT !.basis = wrong_basis,
                                                                 !.is_bug = TRUE])],
                 [type |-> "measurement_error", location |-> measurement_idx,
                  \* bug_info reads original_measurement after the assignment to
                  \* the same dict
                  original_basis |-> wrong_basis,
                  wrong_basis |-> wrong_basis])

\* generate_circuit always sets 'measurements', so the branch that creates
\* the list (lines 222-223) is not taken; randrange(0) raises ValueError
inject_measurement_error(c) ==
    IF Len(c.measurements) = 0
    THEN {Raises(c)}
    ELSE UNION {
           {measurement_error_apply(c, measurement_idx, wrong_basis) :
              wrong_basis \in Others(bases, At(c.measurements, measurement_idx).basis)} :
           measurement_idx \in PyRange(Len(c.measurements))}

\* the swap with only the first of the two gates marked
timing_error_apply_one_mark(c, idx) ==
    LET swapped == [c EXCEPT !.gates = SetAt(SetAt(c.gates, idx, At(c.gates, idx + 1)),
                                             idx + 1, At(c.gates, idx))]
        marked == AddFlag(swapped, idx, "timing_bug")
    IN  Returned(marked,
                 [type |-> "timing_error", location |-> <<idx, idx + 1>>,
                  gate1 |-> marked.heap[At(marked.gates, idx)].type,
                  gate2 |-> marked.heap[At(marked.gates, idx + 1)].type])

timing_error_apply(c, idx) ==
    LET swapped == [c EXCEPT !.gates = SetAt(SetAt(c.gates, idx, At(c.gates, idx + 1)),
                                             idx + 1, At(c.gates, idx))]
        marked == AddFlag(AddFlag(swapped, idx, "timing_bug"), idx + 1, "timing_bug")
    IN  Returned(marked,
                 [type |-> "timing_error", location |-> <<idx, idx + 1>>,
                  gate1 |-> marked.heap[At(marked.gates, idx)].type,
                  gate2 |-> marked.heap[At(marked.gates, idx + 1)].type])

inject_timing_error(c) ==
    IF Len(c.gates) < 2
    THEN {Returned(c, [type |-> "timing_error",
                       description |-> "Not enough gates for timing error"])}
    ELSE {timing_error_apply(c, idx) : idx \in PyRange(Len(c.gates) - 1)}

\* max(1, len(gates) // 4)
n_affected(c) == IF Len(c.gates) \div 4 > 1 THEN Len(c.gates) \div 4 ELSE 1

RECURSIVE AddFlags(_, _, _)
AddFlags(c, idxs, flag) ==
    IF idxs = {} THEN c
    ELSE LET i == CHOOSE i \in idxs : TRUE
         IN  AddFlags(AddFlag(c, i, flag), idxs \ {i}, flag)

\* T1 and T2 are kept only as the presence of the key 'decoherence';
\* affected_indices is kept as the set random.sample drew
decoherence_error_apply(c, affected_indices) ==
    Returned(AddFlags([c EXCEPT !.keys = @ \cup {"decoherence"}],
                      affected_indices, "decoherence_affected"),
             [type |-> "decoherence_error", affected_gates |-> affected_indices])

inject_decoherence_error(c) ==
    {decoherence_error_apply(c, affected_indices) :
       affected_indices \in {s \in SUBSET PyRange(Len(c.gates)) :
                               Cardinality(s) = IF n_affected(c) < Len(c.gates)
                                                THEN n_affected(c) ELSE Len(c.gates)}}

\* two_qubit_gates = [i for i, g in enumerate(gates) if len(g['qubits']) == 2]
crosstalk_candidates(c) ==
    {i \in PyRange(Len(c.gates)) : Len(c.heap[At(c.gates, i)].qubits) = 2}

\* the crosstalk matrix is kept only as the presence of the key 'crosstalk'
inject_crosstalk_error(c) ==
    IF c.n_qubits < 2
    THEN {Returned(c, [type |-> "crosstalk_error",
                       description |-> "Need at least 2 qubits for crosstalk"])}
    ELSE LET with_key == [c EXCEPT !.keys = @ \cup {"crosstalk"}]
         IN  IF crosstalk_candidates(c) = {}
             THEN {Returned(with_key, [type |-> "crosstalk_error"])}
             ELSE {Returned(AddFlag(with_key, affected_idx, "crosstalk_affected"),
                            [type |-> "crosstalk_error"]) :
                     affected_idx \in crosstalk_candidates(c)}

\* the if / elif chain of inject_bug; a bug_type that matches no branch
\* leaves circuit_copy and the initial bug_info as they are
dispatch(c, bt) ==
    CASE bt = "gate_error" -> inject_gate_error(c)
      [] bt = "parameter_error" -> inject_parameter_error(c)
      [] bt = "qubit_error" -> inject_qubit_error(c)
      [] bt = "control_error" -> inject_control_error(c)
      [] bt = "missing_gate" -> inject_missing_gate(c)
      [] bt = "extra_gate" -> inject_extra_gate(c)
      [] bt = "measurement_error" -> inject_measurement_error(c)
      [] bt = "timing_error" -> inject_timing_error(c)
      [] bt = "decoherence_error" -> inject_decoherence_error(c)
      [] bt = "crosstalk_error" -> inject_crosstalk_error(c)
      [] OTHER -> {Returned(c, [type |-> bt, location |-> "None", description |-> ""])}

\* The record of _inject_extra_gate holds the inserted gate dict itself
\* ('extra_gate': extra_gate), so a later write into that gate shows in the
\* record.  The heap only grows and only _inject_extra_gate sets 'is_bug' on
\* a gate, so the extra gates of the heap, in order, are the gates of the
\* last extra_gate records of the log, in order; earlier extra_gate records
\* hold gates of circuits built before and read as they were.  The log of
\* before a call is read against the dicts that existed before it: the gate
\* the call itself inserts belongs to the record the call appends.
extra_records(bugs) == {k \in 1..Len(bugs) : bugs[k].type = "extra_gate"}
extra_refs(h) == {i \in 1..Len(h) : "is_bug" \in h[i].flags}

\* the log as it reads once the gate dicts it holds are those of heap h
live_records(h, bugs) ==
    [k \in 1..Len(bugs) |->
       IF k \in extra_records(bugs)
       THEN LET rank == Cardinality({k2 \in extra_records(bugs) : k2 >= k})
                refs == {i \in extra_refs(h) :
                           Cardinality({i2 \in extra_refs(h) : i2 >= i}) = rank}
            IN  IF refs = {} THEN bugs[k]
                ELSE [bugs[k] EXCEPT !.extra_gate = h[CHOOSE i \in refs : TRUE]]
       ELSE bugs[k]]

\* inject_bug once bug_type is drawn.  circuit.copy() and gates.copy() give a
\* new dict and a new list holding the same gate dicts and the same
\* measurements list: c.gates is the copy, c.heap and c.measurements are shared.
inject_bug_as(c, bugs, bt) ==
    IF c.gates = <<>>
    THEN {[raised |-> FALSE, circuit |-> c, injected_bugs |-> bugs, bug_type |-> bt]}
    ELSE {IF r.raised
          THEN [raised |-> TRUE, circuit |-> r.circuit, injected_bugs |-> bugs,
                bug_type |-> bt]
          ELSE [raised |-> FALSE, circuit |-> r.circuit,
                injected_bugs |->
                   Append(live_records(SubSeq(r.circuit.heap, 1, Len(c.heap)), bugs),
                          r.bug_info),
                bug_type |-> bt] :
            r \in dispatch(c, bt)}

\* QuantumBugInjector.inject_bug(circuit, bug_type); "None" draws from BUG_TYPES
inject_bug(c, bugs, requested) ==
    UNION {inject_bug_as(c, bugs, bt) :
             bt \in IF requested = "None" THEN Range(BUG_TYPES) ELSE {requested}}

\* the bug types a caller asks for
RequestedTypes == Range(BUG_TYPES) \cup {"None", UnknownBugType}

(***************************************************************************)
(* RandomQuantumCircuitGenerator.generate_circuit(add_bugs = False)        *)
(***************************************************************************)
\* the gate dicts one round of the generation loop can append
generated_gates(n, layer) ==
    (IF n >= 2
     THEN {NewGate(t, qs, layer, t = "CPHASE", IF t = "CPHASE" THEN a ELSE 0) :
             t \in SampledTwo, qs \in Sample2(n), a \in SampledAngles}
     ELSE {})
    \cup
    {NewGate(t, <<q>>, layer, t \in {"RX", "RY", "RZ"},
             IF t \in {"RX", "RY", "RZ"} THEN a ELSE 0) :
       t \in SampledSingle, q \in PyRange(n), a \in SampledAngles}

\* the measurement lists explored: qubit q is measured in bases[(q + s) % 3]
SampledShifts == {0}
generated_measurements(n) ==
    {[i \in 1..n |-> [qubit |-> i - 1, basis |-> At(bases, (i - 1 + s) % Len(bases)),
                      is_bug |-> FALSE]] : s \in SampledShifts}


(***************************************************************************)
(* Part II: perplexity_rcg.py                                              *)
(*                                                                         *)
(* An instruction is (name, qubits, params); params is <<angle>> for a     *)
(* rotation and <<>> otherwise.  The code replaces whole entries of        *)
(* circuit.data, and QuantumCircuit.copy() gives the copy its own data     *)
(* list, so circuits are modelled by value.                                *)
(***************************************************************************)
\* Longest circuit handed to inject_bugs.
MaxInstr == 1

\* the inputs explored
SampledQubitCounts == {0, 1, 2}
SampledNumBugs == {0, 1, 2}
SampledSingleNames == {"h", "x", "rx"}
SampledTwoNames == {"cx", "cz"}
\* rng.uniform(-0.5, 0.5), in abstract angle units; the draw can be exactly 0
SampledDeltas == {0 - 1, 0, 1}

supported == <<"gate_replacement", "angle_perturbation", "gate_deletion",
               "gate_insertion", "swap_control_target">>

\* the bug_types arguments explored: None (all supported), all but
\* gate_insertion, gate_replacement alone, and a list naming an unsupported type
SampledBugTypeLists ==
    {<<"None">>,
     <<"gate_replacement">>,
     <<"gate_replacement", "angle_perturbation", "gate_deletion", "swap_control_target">>,
     <<"gate_deletion", "gate_error">>}

Instruction(name, qubits, params) == [name |-> name, qubits |-> qubits, params |-> params]

\* what qc.h / qc.x / qc.cx / qc.cz append
StandardGate(name, qubits) == Instruction(name, qubits, <<>>)

SampledInstructions(n) ==
    {Instruction(name, <<q>>, IF name = "rx" THEN <<a>> ELSE <<>>) :
       name \in SampledSingleNames, q \in PyRange(n), a \in SampledAngles}
    \cup
    {StandardGate(name, qs) : name \in SampledTwoNames, qs \in Sample2(n)}

RECURSIVE SeqsUpTo(_, _)
SeqsUpTo(S, k) ==
    IF k = 0 THEN {<<>>}
    ELSE LET shorter == SeqsUpTo(S, k - 1)
         IN  shorter \cup {Append(sq, x) : sq \in {t \in shorter : Len(t) = k - 1}, x \in S}

VARIABLES
    px_pc,          \* position in inject_bugs: "off", "call", "loop", "returned", "raised"
    circuit,        \* the caller's QuantumCircuit: num_qubits and data
    px_bug_types,   \* the bug_types in force (after the None default)
    num_bugs,       \* the num_bugs argument
    attempts,       \* iterations of "for _ in range(num_bugs)" completed
    new_circ,       \* new_circ.data
    bug_log,        \* bug_log
    last            \* the last iteration: data and log before it, bug_choice, log_entry

pxvars == <<px_pc, circuit, px_bug_types, num_bugs, attempts, new_circ, bug_log, last>>

\* The state of build_quantum_circuit (Part III).
VARIABLES
    b_pc,           \* position in build_quantum_circuit: "off", "loop", "done",
                    \* "raised" (an exception), "exit" (sys.exit)
    cfg,            \* the arguments of the call and the program called
    layer,          \* the loop variable layer
    qubit,          \* the loop variable qubit
    qc,             \* the operations of qc, in order
    total_gates,    \* total_gates (chatgpt)
    bug_counts,     \* bug_counts (chatgpt)
    placed          \* per placement so far: layer, qubit, gate, bug_action,
                    \* applied_bug and the length of qc before and after

bvars == <<b_pc, cfg, layer, qubit, qc, total_gates, bug_counts, placed>>

\* The state of a QuantumCircuitLab session (Part IV).
VARIABLES
    lab_pc,         \* "off", "gen" (in generate_random_circuit), "golden" (it
                    \* returned), "done" (inject_bug returned), "raised"
    lab_num_qubits, \* QuantumCircuitLab.num_qubits
    lab_depth,      \* the argument depth
    golden_qc,      \* the operations of the generated circuit, in order
    lab_bug_type,   \* the argument bug_type of inject_bug
    lab_idx,        \* the idx drawn by the "swap" branch, -1 when none was drawn
    buggy_qc        \* the operations of the circuit inject_bug returned

labvars == <<lab_pc, lab_num_qubits, lab_depth, golden_qc, lab_bug_type, lab_idx,
             buggy_qc>>

\* The state of a parse_gate_list call followed by a pick_gate call (Part V).
VARIABLES
    parse_pc,       \* "off", "call", "returned", "raised" (ValueError),
                    \* "picked", "pick_raised" (pick_gate raised)
    gates_str,      \* the argument gates_str, character by character
    parsed,         \* the list returned, and the unknown names of the ValueError
    picked          \* the gate pick_gate returned, "" before

parsevars == <<parse_pc, gates_str, parsed, picked>>

\* The state of RandomCircuitGenerator.generate (Part VI).
VARIABLES
    gen_pc,         \* "off", "layer" (at the top of the for loop), "place" (in
                    \* the while loop), "done" (generate returned)
    gen_num_qubits, \* RandomCircuitGenerator.num_qubits
    gen_depth,      \* RandomCircuitGenerator.depth
    gen_layer,      \* the rounds of the for loop finished
    free_qubits,    \* the shuffled list free_qubits of the current layer
    gen_i,          \* the index i into free_qubits
    gen_qc,         \* the instructions of qc, in order
    gen_layer_of    \* for each instruction of qc, the round that appended it

genvars == <<gen_pc, gen_num_qubits, gen_depth, gen_layer, free_qubits, gen_i,
             gen_qc, gen_layer_of>>

\* The state of a session on one RandomQuantumCircuitGenerator (Part VII).
VARIABLES
    job_pc,         \* "off", "idle" (between calls), "bugs" (in the bug loop of
                    \* generate_circuit), "multi" (in the loop of
                    \* generate_multiple_circuits), "raised"
    job_n_qubits,   \* RandomQuantumCircuitGenerator.n_qubits
    job_depth,      \* RandomQuantumCircuitGenerator.depth
    job_script,     \* the calls the caller has still to make
    job_api,        \* the call of the caller in progress or last returned
    job_todo,       \* the bug types the bug loop has still to run through
    job_circuit,    \* the local circuit of generate_circuit
    job_clean,      \* the gates of that circuit before the bug loop
    job_bugs,       \* bug_injector.injected_bugs
    job_calls,      \* the bug types of the inject_bug calls that returned on
                    \* the current circuit
    job_done,       \* the records those calls appended: the same dicts as
                    \* the last entries of the injector's log
    job_left,       \* rounds of the loop of generate_multiple_circuits left
    circuits        \* the list circuits of generate_multiple_circuits

jobvars == <<job_pc, job_n_qubits, job_depth, job_script, job_api, job_todo,
             job_circuit, job_clean, job_bugs, job_calls, job_done, job_left,
             circuits>>

\* the programs added after Part III
xvars == <<labvars, parsevars, genvars, jobvars>>

\* a bug function returning None
None == [type |-> "None"]

Outcome(data, log_entry) == [data |-> data, log_entry |-> log_entry]

\* _choose_instruction_index: None on an empty circuit
choose_instruction_index(data) == PyRange(Len(data))

\* the instruction _bug_gate_replacement builds as a placeholder and the name
\* it reports; every branch but the cx / cz ones calls circuit.h
replacement_for(old_name, qargs) ==
    CASE old_name = "h" -> [new_name |-> "x", new_instr |-> StandardGate("h", <<At(qargs, 0)>>)]
      [] old_name = "x" -> [new_name |-> "h", new_instr |-> StandardGate("h", <<At(qargs, 0)>>)]
      [] old_name = "cx" -> [new_name |-> "cz",
                             new_instr |-> StandardGate("cz", <<At(qargs, 0), At(qargs, 1)>>)]
      [] old_name = "cz" -> [new_name |-> "cx",
                             new_instr |-> StandardGate("cx", <<At(qargs, 0), At(qargs, 1)>>)]

gate_replacement_at(data, idx) ==
    LET old == At(data, idx)
    IN  IF old.name \notin {"h", "x", "cx", "cz"}
        THEN Outcome(data, None)
        ELSE LET r == replacement_for(old.name, old.qubits)
             IN  \* circuit.data[idx] = (new_instr, qargs, cargs): the new
                 \* operation on the old qargs
                 Outcome(SetAt(data, idx,
                               Instruction(r.new_instr.name, old.qubits, r.new_instr.params)),
                         [type |-> "gate_replacement", index |-> idx,
                          old_name |-> old.name, new_name |-> r.new_name])

bug_gate_replacement(n, data) ==
    IF choose_instruction_index(data) = {}
    THEN {Outcome(data, None)}
    ELSE {gate_replacement_at(data, idx) : idx \in choose_instruction_index(data)}

rot_indices(data) == {i \in PyRange(Len(data)) : At(data, i).name \in {"rx", "ry", "rz"}}

angle_perturbation_at(data, idx, delta) ==
    LET instr == At(data, idx)
        old_params == instr.params
    IN  IF old_params = <<>>
        THEN Outcome(data, None)
        ELSE LET old_angle == At(old_params, 0)
                 new_angle == old_angle + delta
             IN  Outcome(SetAt(data, idx,
                               [instr EXCEPT !.params = <<new_angle>> \o Tail(old_params)]),
                         [type |-> "angle_perturbation", index |-> idx,
                          old_angle |-> old_angle, new_angle |-> new_angle,
                          delta |-> delta])

bug_angle_perturbation(n, data) ==
    IF rot_indices(data) = {}
    THEN {Outcome(data, None)}
    ELSE {angle_perturbation_at(data, idx, delta) :
            idx \in rot_indices(data), delta \in SampledDeltas}

bug_gate_deletion(n, data) ==
    IF choose_instruction_index(data) = {}
    THEN {Outcome(data, None)}
    ELSE {Outcome(Pop(data, idx),
                  [type |-> "gate_deletion", index |-> idx,
                   deleted_name |-> At(data, idx).name,
                   deleted_qubits |-> At(data, idx).qubits]) :
            idx \in choose_instruction_index(data)}

bug_gate_insertion(n, data) ==
    IF n = 0
    THEN {Outcome(data, None)}
    ELSE {Outcome(Insert(data, idx, StandardGate("h", <<q>>)),
                  [type |-> "gate_insertion", index |-> idx, name |-> "h",
                   qubits |-> <<q>>]) :
            idx \in PyRange(Len(data) + 1), q \in PyRange(n)}
         \cup
         (IF n >= 2
          THEN {Outcome(Insert(data, idx, StandardGate("cx", qs)),
                        [type |-> "gate_insertion", index |-> idx, name |-> "cx",
                         qubits |-> qs]) :
                  idx \in PyRange(Len(data) + 1), qs \in Sample2(n)}
          ELSE {})

ctrl_indices(data) ==
    {i \in PyRange(Len(data)) :
       At(data, i).name \in {"cx", "cz"} /\ Len(At(data, i).qubits) = 2}

\* the record of a swap with the instruction left as it was
swap_control_target_at_kept(data, idx) ==
    LET instr == At(data, idx)
    IN  Outcome(data,
                [type |-> "swap_control_target", index |-> idx, name |-> instr.name,
                 old_qubits |-> instr.qubits,
                 new_qubits |-> <<At(instr.qubits, 1), At(instr.qubits, 0)>>])

swap_control_target_at(data, idx) ==
    LET instr == At(data, idx)
        old_qubits == instr.qubits
        new_qargs == <<At(instr.qubits, 1), At(instr.qubits, 0)>>
    IN  Outcome(SetAt(data, idx, [instr EXCEPT !.qubits = new_qargs]),
                [type |-> "swap_control_target", index |-> idx, name |-> instr.name,
                 old_qubits |-> old_qubits, new_qubits |-> new_qargs])

bug_swap_control_target(n, data) ==
    IF ctrl_indices(data) = {}
    THEN {Outcome(data, None)}
    ELSE {swap_control_target_at(data, idx) : idx \in ctrl_indices(data)}

\* the if / elif chain of the loop body of inject_bugs
bug_dispatch(bug_choice, n, data) ==
    CASE bug_choice = "gate_replacement" -> bug_gate_replacement(n, data)
      [] bug_choice = "angle_perturbation" -> bug_angle_perturbation(n, data)
      [] bug_choice = "gate_deletion" -> bug_gate_deletion(n, data)
      [] bug_choice = "gate_insertion" -> bug_gate_insertion(n, data)
      [] bug_choice = "swap_control_target" -> bug_swap_control_target(n, data)
      [] OTHER -> {Outcome(data, None)}

\* "if log_entry is not None: bug_log.append(log_entry)"
log_append(log, log_entry) == IF log_entry # None THEN Append(log, log_entry) ELSE log

NoAttempt == [before |-> <<>>, log |-> <<>>, bug_choice |-> "None", log_entry |-> None]

IdlePerplexity ==
    /\ px_pc = "off"
    /\ circuit = [num_qubits |-> 0, data |-> <<>>]
    /\ px_bug_types = <<>>
    /\ num_bugs = 0
    /\ attempts = 0
    /\ new_circ = <<>>
    /\ bug_log = <<>>
    /\ last = NoAttempt

InitPerplexity ==
    /\ px_pc = "call"
    /\ \E n \in SampledQubitCounts :
         \E data \in SeqsUpTo(SampledInstructions(n), MaxInstr) :
            circuit = [num_qubits |-> n, data |-> data]
    /\ px_bug_types \in SampledBugTypeLists
    /\ num_bugs \in SampledNumBugs
    /\ attempts = 0
    /\ new_circ = <<>>
    /\ bug_log = <<>>
    /\ last = NoAttempt

\* the argument checks and "new_circ = circuit.copy()"
PxCall ==
    /\ px_pc = "call"
    /\ LET types == IF px_bug_types = <<"None">> THEN supported ELSE px_bug_types
       IN  IF \E i \in 1..Len(types) : types[i] \notin Range(supported)
           THEN /\ px_pc' = "raised"
                /\ UNCHANGED <<px_bug_types, new_circ>>
           ELSE /\ px_pc' = "loop"
                /\ px_bug_types' = types
                /\ new_circ' = circuit.data
    /\ UNCHANGED <<circuit, num_bugs, attempts, bug_log, last>>
    /\ UNCHANGED <<dsvars, bvars, xvars>>

\* one iteration of "for _ in range(num_bugs)" that reaches the bug functions
PxAttempt ==
    /\ px_pc = "loop"
    /\ attempts < num_bugs
    /\ ~(new_circ = <<>> /\ "gate_insertion" \notin Range(px_bug_types))
    /\ \E bug_choice \in Range(px_bug_types) :
         \E o \in bug_dispatch(bug_choice, circuit.num_qubits, new_circ) :
            /\ new_circ' = o.data
            /\ bug_log' = log_append(bug_log, o.log_entry)
            /\ last' = [before |-> new_circ, log |-> bug_log,
                        bug_choice |-> bug_choice, log_entry |-> o.log_entry]
    /\ attempts' = attempts + 1
    /\ UNCHANGED <<px_pc, circuit, px_bug_types, num_bugs>>
    /\ UNCHANGED <<dsvars, bvars, xvars>>

\* "if not new_circ.data and 'gate_insertion' not in bug_types: break"
PxBreak ==
    /\ px_pc = "loop"
    /\ attempts < num_bugs
    /\ new_circ = <<>> /\ "gate_insertion" \notin Range(px_bug_types)
    /\ px_pc' = "returned"
    /\ UNCHANGED <<circuit, px_bug_types, num_bugs, attempts, new_circ, bug_log, last>>
    /\ UNCHANGED <<dsvars, bvars, xvars>>

\* "return new_circ, bug_log" after the last iteration
PxReturn ==
    /\ px_pc = "loop"
    /\ attempts = num_bugs
    /\ px_pc' = "returned"
    /\ UNCHANGED <<circuit, px_bug_types, num_bugs, attempts, new_circ, bug_log, last>>
    /\ UNCHANGED <<dsvars, bvars, xvars>>

(***************************************************************************)
(* Part III: build_quantum_circuit of chatgpt_rcg.py ("chatgpt") and of    *)
(* quantum_circuit_generator.py ("qcg")                                    *)
(*                                                                         *)
(* qc is the list of operations appended to the QuantumCircuit, each a     *)
(* name and its qubits in argument order.  rng draws are nondeterministic  *)
(* choices over the whole range of the draw.                               *)
(***************************************************************************)
\* Largest num_qubits and circuit_depth handed to build_quantum_circuit.
MaxBuildQubits == 3
MaxBuildDepth == 3

SINGLE_QUBIT_GATES == <<"h", "x", "y", "z">>
TWO_QUBIT_GATES == <<"cx", "cz">>
THREE_QUBIT_GATES == <<"ccx">>
VALID_GATES == Range(SINGLE_QUBIT_GATES) \cup Range(TWO_QUBIT_GATES) \cup Range(THREE_QUBIT_GATES)
CHATGPT_BUG_TYPES == <<"flip_to_x", "wrong_target", "swap_controls", "drop_gate",
                       "insert_random_gate">>

\* the gates the chain of quantum_circuit_generator.build_quantum_circuit knows
available_gates == <<"h", "x", "y", "z", "cx", "ccx">>

\* number of qubits a gate name acts on
Arity(gate) ==
    IF gate \in Range(THREE_QUBIT_GATES) THEN 3
    ELSE IF gate \in Range(TWO_QUBIT_GATES) THEN 2 ELSE 1

\* the palettes explored
SampledPalettes == {<<"h", "x", "cx">>, <<"cx">>, <<"ccx", "cz">>, <<"y", "z">>}

\* the arguments explored: the random strategy with palettes of at most two
\* gates and at most two layers; bug injection (bug_rate > 0, kept as 1, the
\* draw rng.random() < bug_rate being free) on one-layer sequential
\* circuits, with bug_types the whole of BUG_TYPES
SampledConfigs ==
    {c \in [prog : {"chatgpt", "qcg", "rcg"},
            num_qubits : 1..MaxBuildQubits,
            circuit_depth : 1..MaxBuildDepth,
            selected_gates : SampledPalettes,
            gate_application : {"random", "sequential"},
            bug_rate : {0, 1},
            bug_types : {CHATGPT_BUG_TYPES},
            bug_flip_gate : BOOLEAN,
            bug_wrong_target : BOOLEAN,
            measure : BOOLEAN] :
       /\ c.gate_application = "random" =>
            Len(c.selected_gates) <= 2 /\ c.circuit_depth <= 2
       /\ c.bug_rate > 0 =>
            c.prog = "chatgpt" /\ c.gate_application = "sequential" /\ c.circuit_depth = 1
       /\ c.prog \in {"qcg", "rcg"} => c.measure
       /\ c.prog # "rcg" => ~c.bug_flip_gate /\ ~c.bug_wrong_target
       /\ c.bug_flip_gate => c.gate_application = "sequential" /\ c.circuit_depth = 1}

Op(name, qubits) == [name |-> name, qubits |-> qubits]

\* a choice from the whole palette whatever the strategy
pick_gate_any(selected_gates, strategy, layer_idx) == Range(selected_gates)

\* pick_gate (chatgpt_rcg) and the same choice inlined in
\* quantum_circuit_generator.build_quantum_circuit
pick_gate(selected_gates, strategy, layer_idx) ==
    IF strategy = "sequential"
    THEN {At(selected_gates, layer_idx % Len(selected_gates))}
    ELSE Range(selected_gates)

\* a placement with no guard on num_qubits
fits_always(gate, num_qubits) == TRUE

\* the placement guards "if num_qubits < 2: return None" / "< 3"
fits(gate, num_qubits) ==
    IF gate \in Range(THREE_QUBIT_GATES) THEN num_qubits >= 3
    ELSE IF gate \in Range(TWO_QUBIT_GATES) THEN num_qubits >= 2 ELSE TRUE

\* the offset without the wrap
wrap_none(q, k, num_qubits) == q + k

\* the offset-and-wrap rule "(qubit + k) % num_qubits"
wrap(q, k, num_qubits) == (q + k) % num_qubits

Applied(ops, applied_bug) == [qc |-> ops, applied_bug |-> applied_bug]

\* the exceptions of a placement: apply_gate's ValueError and the
\* CircuitError of QuantumCircuit on duplicate qubit arguments
Errors == {"ValueError", "CircuitError"}

\* the extra gate appended without being reported as the applied bug
with_extra_unreported(ops, bug_action, target, applied_bug) ==
    IF bug_action = "insert_random_gate"
    THEN {Applied(Append(ops, Op(extra, <<target>>)), applied_bug) :
            extra \in Range(SINGLE_QUBIT_GATES)}
    ELSE {Applied(ops, applied_bug)}

\* "extra = rng.choice(SINGLE_QUBIT_GATES); getattr(qc, extra)(target)"
with_extra(ops, bug_action, target, applied_bug) ==
    IF bug_action = "insert_random_gate"
    THEN {Applied(Append(ops, Op(extra, <<target>>)), "insert_random_gate") :
            extra \in Range(SINGLE_QUBIT_GATES)}
    ELSE {Applied(ops, applied_bug)}

\* chatgpt_rcg.apply_gate: the results over the draw of the extra gate;
\* applied_bug "None" is Python's None
apply_gate(ops, gate, q, num_qubits, bug_action) ==
    IF gate \in Range(SINGLE_QUBIT_GATES) THEN
        IF bug_action = "drop_gate" THEN {Applied(ops, "drop_gate")}
        ELSE LET flipped == bug_action = "flip_to_x"
                 g == IF flipped THEN "x" ELSE gate
             IN  with_extra(Append(ops, Op(g, <<q>>)), bug_action, q,
                            IF flipped THEN "flip_to_x" ELSE "None")
    ELSE IF gate \in Range(TWO_QUBIT_GATES) THEN
        IF ~fits(gate, num_qubits) THEN {Applied(ops, "None")}
        ELSE IF bug_action = "drop_gate" THEN {Applied(ops, "drop_gate")}
        ELSE LET control == q
                 target == IF bug_action = "wrong_target"
                           THEN wrap(q, 2, num_qubits)
                           ELSE wrap(q, 1, num_qubits)
                 c2 == IF bug_action = "swap_controls" THEN target ELSE control
                 t2 == IF bug_action = "swap_controls" THEN control ELSE target
             IN  IF c2 = t2 THEN {Applied(ops, "CircuitError")}
                 ELSE with_extra(Append(ops, Op(gate, <<c2, t2>>)), bug_action, t2,
                                 IF bug_action \in {"wrong_target", "swap_controls"}
                                 THEN bug_action ELSE "None")
    ELSE IF gate \in Range(THREE_QUBIT_GATES) THEN
        IF ~fits(gate, num_qubits) THEN {Applied(ops, "None")}
        ELSE IF bug_action = "drop_gate" THEN {Applied(ops, "drop_gate")}
        ELSE LET control1 == q
                 control2 == wrap(q, 1, num_qubits)
                 target == IF bug_action = "wrong_target"
                           THEN wrap(q, 3, num_qubits)
                           ELSE wrap(q, 2, num_qubits)
                 c1 == IF bug_action = "swap_controls" THEN target ELSE control1
                 t2 == IF bug_action = "swap_controls" THEN control1 ELSE target
             IN  IF Cardinality({c1, control2, t2}) < 3 THEN {Applied(ops, "CircuitError")}
                 ELSE with_extra(Append(ops, Op("ccx", <<c1, control2, t2>>)), bug_action,
                                 t2,
                                 IF bug_action \in {"wrong_target", "swap_controls"}
                                 THEN bug_action ELSE "None")
    ELSE {Applied(ops, "ValueError")}

\* the if / elif chain of quantum_circuit_generator.build_quantum_circuit;
\* "exit" is sys.exit(1) on a gate the chain does not know
qcg_apply(ops, gate, q, num_qubits) ==
    IF gate \in {"h", "x", "y", "z"} THEN Applied(Append(ops, Op(gate, <<q>>)), "None")
    ELSE IF gate = "cx" THEN
        IF fits(gate, num_qubits)
        THEN Applied(Append(ops, Op("cx", <<q, wrap(q, 1, num_qubits)>>)), "None")
        ELSE Applied(ops, "None")
    ELSE IF gate = "ccx" THEN
        IF fits(gate, num_qubits)
        THEN Applied(Append(ops, Op("ccx", <<q, wrap(q, 1, num_qubits),
                                            wrap(q, 2, num_qubits)>>)), "None")
        ELSE Applied(ops, "None")
    ELSE Applied(ops, "exit")

\* "if bug_flip_gate and random.random() < 0.1: gate = 'x'" of
\* random_circuit_generator: the gates the chain can see for a chosen gate
rcg_flips(gate, bug_flip_gate) == {gate} \cup (IF bug_flip_gate THEN {"x"} ELSE {})

\* the if / elif chain of random_circuit_generator.build_quantum_circuit for
\* the gate it sees; the result names what happened: "wrong_target" when the
\* target came from the bug offset, "CircuitError" when QuantumCircuit
\* refuses duplicate qubits, "exit" for sys.exit(1)
rcg_apply(ops, gate, q, num_qubits, bug_wrong_target) ==
    LET tag == IF bug_wrong_target THEN "wrong_target" ELSE "None"
    IN  IF gate \in {"h", "x", "y", "z"} THEN Applied(Append(ops, Op(gate, <<q>>)), "None")
        ELSE IF gate = "cx" THEN
            IF fits(gate, num_qubits)
            THEN LET target == IF bug_wrong_target THEN wrap(q, 2, num_qubits)
                               ELSE wrap(q, 1, num_qubits)
                 IN  IF target = q THEN Applied(ops, "CircuitError")
                     ELSE Applied(Append(ops, Op("cx", <<q, target>>)), tag)
            ELSE Applied(ops, "None")
        ELSE IF gate = "ccx" THEN
            IF fits(gate, num_qubits)
            THEN LET control1 == q
                     control2 == wrap(q, 1, num_qubits)
                     target == wrap(q, IF bug_wrong_target THEN 3 ELSE 2, num_qubits)
                 IN  IF Cardinality({control1, control2, target}) < 3
                     THEN Applied(ops, "CircuitError")
                     ELSE Applied(Append(ops, Op("ccx", <<control1, control2, target>>)), tag)
            ELSE Applied(ops, "None")
        ELSE Applied(ops, "exit")

\* the bug_action draws of one placement: None unless
\* "bug_rate > 0 and rng.random() < bug_rate", then rng.choice(bug_types)
bug_actions(bug_rate, bug_types) ==
    {"None"} \cup (IF bug_rate > 0 THEN Range(bug_types) ELSE {})

\* qc.measure(range(num_qubits), range(num_qubits))
measure_all(ops, num_qubits) ==
    ops \o [i \in 1..num_qubits |-> Op("measure", <<i - 1>>)]

NoConfig == [prog |-> "none", num_qubits |-> 0, circuit_depth |-> 0,
             selected_gates |-> <<>>, gate_application |-> "none", bug_rate |-> 0,
             bug_types |-> <<>>, bug_flip_gate |-> FALSE, bug_wrong_target |-> FALSE,
             measure |-> FALSE]

ZeroCounts == [b \in Range(CHATGPT_BUG_TYPES) |-> 0]

IdleBuild ==
    /\ b_pc = "off"
    /\ cfg = NoConfig
    /\ layer = 0
    /\ qubit = 0
    /\ qc = <<>>
    /\ total_gates = 0
    /\ bug_counts = ZeroCounts
    /\ placed = <<>>

InitBuild ==
    /\ b_pc = "loop"
    /\ cfg \in SampledConfigs
    /\ layer = 0
    /\ qubit = 0
    /\ qc = <<>>
    /\ total_gates = 0
    /\ bug_counts = ZeroCounts
    /\ placed = <<>>

Placement(l, q, gate, bug_action, applied_bug, before, after) ==
    [layer |-> l, qubit |-> q, gate |-> gate, bug_action |-> bug_action,
     applied_bug |-> applied_bug, before |-> before, after |-> after]

\* the loop variables after one more iteration of the inner loop; an
\* exception or sys.exit leaves them where they are
Advance(result) ==
    IF result \in Errors \cup {"exit"}
    THEN UNCHANGED <<layer, qubit>>
    ELSE /\ qubit' = IF qubit + 1 < cfg.num_qubits THEN qubit + 1 ELSE 0
         /\ layer' = IF qubit + 1 < cfg.num_qubits THEN layer ELSE layer + 1

\* one iteration of "for qubit in range(num_qubits)" in chatgpt_rcg
ChatgptPlace ==
    /\ b_pc = "loop"
    /\ cfg.prog = "chatgpt"
    /\ layer < cfg.circuit_depth
    /\ \E gate \in pick_gate(cfg.selected_gates, cfg.gate_application, layer) :
         \E bug_action \in bug_actions(cfg.bug_rate, cfg.bug_types) :
            \E r \in apply_gate(qc, gate, qubit, cfg.num_qubits, bug_action) :
               /\ qc' = r.qc
               /\ total_gates' = total_gates + 1
               /\ bug_counts' = IF r.applied_bug \in Range(CHATGPT_BUG_TYPES)
                                THEN [bug_counts EXCEPT ![r.applied_bug] = @ + 1]
                                ELSE bug_counts
               /\ placed' = Append(placed, Placement(layer, qubit, gate, bug_action,
                                                     r.applied_bug, Len(qc), Len(r.qc)))
               /\ b_pc' = IF r.applied_bug \in Errors THEN "raised" ELSE "loop"
               /\ Advance(r.applied_bug)
    /\ UNCHANGED cfg
    /\ UNCHANGED <<dsvars, pxvars, xvars>>

\* one iteration of the inner loop in quantum_circuit_generator
QcgPlace ==
    /\ b_pc = "loop"
    /\ cfg.prog = "qcg"
    /\ layer < cfg.circuit_depth
    /\ \E gate \in pick_gate(cfg.selected_gates, cfg.gate_application, layer) :
         LET r == qcg_apply(qc, gate, qubit, cfg.num_qubits)
         IN  /\ qc' = r.qc
             /\ placed' = Append(placed, Placement(layer, qubit, gate, "None",
                                                   r.applied_bug, Len(qc), Len(r.qc)))
             /\ b_pc' = IF r.applied_bug = "exit" THEN "exit" ELSE "loop"
             /\ Advance(r.applied_bug)
    /\ UNCHANGED <<cfg, total_gates, bug_counts>>
    /\ UNCHANGED <<dsvars, pxvars, xvars>>

\* one iteration of the inner loop in random_circuit_generator; the
\* placement records the gate chosen and, as bug_action, the gate the chain
\* saw after the flip
RcgPlace ==
    /\ b_pc = "loop"
    /\ cfg.prog = "rcg"
    /\ layer < cfg.circuit_depth
    /\ \E gate \in pick_gate(cfg.selected_gates, cfg.gate_application, layer) :
         \E seen \in rcg_flips(gate, cfg.bug_flip_gate) :
            LET r == rcg_apply(qc, seen, qubit, cfg.num_qubits, cfg.bug_wrong_target)
            IN  /\ qc' = r.qc
                /\ placed' = Append(placed, Placement(layer, qubit, gate, seen,
                                                      r.applied_bug, Len(qc), Len(r.qc)))
                /\ b_pc' = IF r.applied_bug = "exit" THEN "exit"
                           ELSE IF r.applied_bug \in Errors THEN "raised" ELSE "loop"
                /\ Advance(r.applied_bug)
    /\ UNCHANGED <<cfg, total_gates, bug_counts>>
    /\ UNCHANGED <<dsvars, pxvars, xvars>>

\* the end of the loops: the measurements and the return
BuildReturn ==
    /\ b_pc = "loop"
    /\ layer = cfg.circuit_depth
    /\ qc' = IF cfg.measure THEN measure_all(qc, cfg.num_qubits) ELSE qc
    /\ b_pc' = "done"
    /\ UNCHANGED <<cfg, layer, qubit, total_gates, bug_counts, placed>>
    /\ UNCHANGED <<dsvars, pxvars, xvars>>


(***************************************************************************)
(* Part IV: gemini_rcg.py, QuantumCircuitLab                               *)
(*                                                                         *)
(* A circuit is the list of its operations as in Part III; measure_all     *)
(* appends a barrier over every qubit and one measurement per qubit.       *)
(***************************************************************************)
\* Deepest circuit asked of generate_random_circuit.
MaxLabDepth == 2

\* the inputs explored
SampledLabQubits == {1, 2}
SampledLabGates == {"h", "z"}
LabBugTypes == {"swap", "over_rotation", "none"}

\* QuantumCircuit.measure_all()
lab_measure_all(ops, n) ==
    ops \o <<Op("barrier", [i \in 1..n |-> i - 1])>>
        \o [i \in 1..n |-> Op("measure", <<i - 1>>)]

\* remove_final_measurements() taking nothing away
keep_final_measurements(ops) == ops

\* QuantumCircuit.remove_final_measurements(): the measurements and barriers
\* that nothing but measurements and barriers follows
RECURSIVE remove_final_measurements(_)
remove_final_measurements(ops) ==
    IF ops # <<>> /\ ops[Len(ops)].name \in {"measure", "barrier"}
    THEN remove_final_measurements(SubSeq(ops, 1, Len(ops) - 1))
    ELSE ops

\* one round of "for _ in range(depth)": a gate on every qubit in turn, then
\* a CNOT on a random pair when there are two qubits
lab_rounds(n) ==
    {[i \in 1..n |-> Op(f[i], <<i - 1>>)] \o tail :
       f \in [1..n -> SampledLabGates],
       tail \in IF n > 1 THEN {<<Op("cx", ct)>> : ct \in Sample2(n)} ELSE {<<>>}}

LabResult(err, ops, idx) == [raised |-> err, qc |-> ops, idx |-> idx]

\* QuantumCircuitLab.inject_bug(circuit, bug_type): the results over the
\* random draws.  In the "swap" branch random.randint(0, -1) raises
\* ValueError on a circuit without gates; on any other circuit idx is drawn
\* and "buggy_qc.data[idx]._replace(...)" raises AttributeError, a
\* CircuitInstruction having replace() but no _replace(), so the branch
\* never reaches "buggy_qc.z(0)".
lab_inject_bug(ops, n, bt) ==
    LET data == remove_final_measurements(ops)
    IN  IF bt = "swap"
        THEN IF data = <<>>
             THEN {LabResult(TRUE, ops, 0 - 1)}
             ELSE {LabResult(TRUE, ops, idx) : idx \in 0..(Len(data) - 1)}
        ELSE IF bt = "over_rotation"
        THEN {LabResult(FALSE, lab_measure_all(Append(data, Op("rz", <<q>>)), n), 0 - 1) :
                q \in 0..(n - 1)}
        ELSE {LabResult(FALSE, lab_measure_all(data, n), 0 - 1)}

IdleLab ==
    /\ lab_pc = "off"
    /\ lab_num_qubits = 0
    /\ lab_depth = 0
    /\ golden_qc = <<>>
    /\ lab_bug_type = "none"
    /\ lab_idx = 0 - 1
    /\ buggy_qc = <<>>

InitLab ==
    /\ lab_pc = "gen"
    /\ lab_num_qubits \in SampledLabQubits
    /\ lab_depth \in 0..MaxLabDepth
    /\ golden_qc = <<>>
    /\ lab_bug_type = "none"
    /\ lab_idx = 0 - 1
    /\ buggy_qc = <<>>

\* the gate operations of a circuit, by position
LabGateOps(ops) == {i \in 1..Len(ops) : ops[i].name \notin {"measure", "barrier"}}

\* one round of the loop of generate_random_circuit
LabRound ==
    /\ lab_pc = "gen"
    /\ Cardinality(LabGateOps(golden_qc)) <
           lab_depth * (lab_num_qubits + IF lab_num_qubits > 1 THEN 1 ELSE 0)
    /\ \E round \in lab_rounds(lab_num_qubits) : golden_qc' = golden_qc \o round
    /\ UNCHANGED <<lab_pc, lab_num_qubits, lab_depth, lab_bug_type, lab_idx, buggy_qc>>
    /\ UNCHANGED <<dsvars, pxvars, bvars, parsevars, genvars, jobvars>>

\* "qc.measure_all(); return qc"
LabMeasure ==
    /\ lab_pc = "gen"
    /\ Cardinality(LabGateOps(golden_qc)) =
           lab_depth * (lab_num_qubits + IF lab_num_qubits > 1 THEN 1 ELSE 0)
    /\ golden_qc' = lab_measure_all(golden_qc, lab_num_qubits)
    /\ lab_pc' = "golden"
    /\ UNCHANGED <<lab_num_qubits, lab_depth, lab_bug_type, lab_idx, buggy_qc>>
    /\ UNCHANGED <<dsvars, pxvars, bvars, parsevars, genvars, jobvars>>

\* lab.inject_bug(golden_qc, bug_type)
LabInjectBug ==
    /\ lab_pc = "golden"
    /\ \E bt \in LabBugTypes :
         \E r \in lab_inject_bug(golden_qc, lab_num_qubits, bt) :
            /\ lab_bug_type' = bt
            /\ lab_idx' = r.idx
            /\ buggy_qc' = IF r.raised THEN <<>> ELSE r.qc
            /\ lab_pc' = IF r.raised THEN "raised" ELSE "done"
    /\ UNCHANGED <<lab_num_qubits, lab_depth, golden_qc>>
    /\ UNCHANGED <<dsvars, pxvars, bvars, parsevars, genvars, jobvars>>


(***************************************************************************)
(* Part V: chatgpt_rcg.parse_gate_list, and pick_gate on what it returns   *)
(*                                                                         *)
(* A Python string is the list of its characters; a gate name is the TLA+  *)
(* string the characters of an item join into.                             *)
(***************************************************************************)
\* Longest gates_str explored.
MaxStrLen == 3

\* the characters explored: gate letters, an upper-case letter, a letter of
\* no gate, the separator and a blank
SampledChars == {"h", "X", "c", "x", "q", ",", " "}

\* str.lower() on one character
lower(ch) == IF ch = "X" THEN "x" ELSE ch

\* str.split(","): the items between the separators, empty ones included
RECURSIVE split(_)
split(chars) ==
    IF \A i \in 1..Len(chars) : chars[i] # ","
    THEN <<chars>>
    ELSE LET k == CHOOSE i \in 1..Len(chars) :
                     chars[i] = "," /\ \A j \in 1..(i - 1) : chars[j] # ","
         IN  <<SubSeq(chars, 1, k - 1)>> \o split(SubSeq(chars, k + 1, Len(chars)))

\* str.strip(): without the blanks at either end
RECURSIVE strip(_)
strip(chars) ==
    IF chars # <<>> /\ chars[1] = " " THEN strip(Tail(chars))
    ELSE IF chars # <<>> /\ chars[Len(chars)] = " "
    THEN strip(SubSeq(chars, 1, Len(chars) - 1))
    ELSE chars

\* the name a list of characters spells, in lower case
RECURSIVE spelled(_)
spelled(chars) == IF chars = <<>> THEN "" ELSE lower(chars[1]) \o spelled(Tail(chars))

IsBlankItem(item) == strip(item) = <<>>
IsKept(item) == ~IsBlankItem(item)
IsUnknown(gate) == gate \notin VALID_GATES

\* the list parse_gate_list falls back to for an empty argument
default_gates == <<"h", "x", "y", "z", "cx", "ccx">>

Parsed(err, gate_list, unknown) == [raised |-> err, gates |-> gate_list, unknown |-> unknown]

\* "[... for g in gates_str.split(',') if g.strip()]"
parse_items(chars) == SelectSeq(split(chars), IsKept)

\* parse_gate_list(gates_str)
parse_gate_list(chars) ==
    IF chars = <<>>
    THEN Parsed(FALSE, default_gates, <<>>)
    ELSE LET items == parse_items(chars)
             names == [i \in 1..Len(items) |-> spelled(strip(items[i]))]
             unknown == SelectSeq(names, IsUnknown)
         IN  IF unknown # <<>>
             THEN Parsed(TRUE, <<>>, unknown)
             ELSE Parsed(FALSE, names, <<>>)

\* the calls of pick_gate explored
SampledStrategies == {"sequential", "random"}
SampledLayers == {0, 1}

IdleParse ==
    /\ parse_pc = "off"
    /\ gates_str = <<>>
    /\ parsed = Parsed(FALSE, <<>>, <<>>)
    /\ picked = ""

InitParse ==
    /\ parse_pc = "call"
    /\ gates_str \in SeqsUpTo(SampledChars, MaxStrLen)
    /\ parsed = Parsed(FALSE, <<>>, <<>>)
    /\ picked = ""

\* the call parse_gate_list(gates_str)
ParseGateList ==
    /\ parse_pc = "call"
    /\ parsed' = parse_gate_list(gates_str)
    /\ parse_pc' = IF parsed'.raised THEN "raised" ELSE "returned"
    /\ UNCHANGED <<gates_str, picked>>
    /\ UNCHANGED <<dsvars, pxvars, bvars, labvars, genvars, jobvars>>

\* pick_gate(selected_gates, strategy, layer_idx, rng) on the returned list:
\* "layer_idx % len(selected_gates)" raises ZeroDivisionError and
\* rng.choice raises IndexError on an empty list
PickGate ==
    /\ parse_pc = "returned"
    /\ \E strategy \in SampledStrategies, layer_idx \in SampledLayers :
         IF parsed.gates = <<>>
         THEN parse_pc' = "pick_raised" /\ picked' = picked
         ELSE /\ parse_pc' = "picked"
              /\ picked' \in pick_gate(parsed.gates, strategy, layer_idx)
    /\ UNCHANGED <<gates_str, parsed>>
    /\ UNCHANGED <<dsvars, pxvars, bvars, labvars, genvars, jobvars>>

(***************************************************************************)
(* Part VI: perplexity_rcg.py, RandomCircuitGenerator.generate             *)
(***************************************************************************)
\* Deepest circuit asked of RandomCircuitGenerator.
MaxGenDepth == 2

\* the inputs explored; the constructor refuses num_qubits < 1 and depth < 1
SampledGenQubits == {1, 2, 3}
SampledGenSingle == {"h"}
SampledGenTwo == {"cx"}

\* rng.shuffle(list(range(n))): every order of 0..n-1
shuffled(n) ==
    {p \in [1..n -> PyRange(n)] : \A a, b \in 1..n : a # b => p[a] # p[b]}

\* the index after a gate, whatever its arity
gen_next_single(i, arity) == i + 1

\* "i += 2" after a two-qubit gate, "i += 1" after a one-qubit gate
gen_next(i, arity) == i + arity

\* "len(free_qubits) - i >= 2 and rng.random() < 0.5"
use_two_qubit_choices(free, i) == IF Len(free) - i >= 2 THEN {TRUE, FALSE} ELSE {FALSE}

\* the instruction one round of the while loop appends
gen_instructions(free, i, use_two_qubit) ==
    IF use_two_qubit
    THEN {StandardGate(gate, <<At(free, i), At(free, i + 1)>>) : gate \in SampledGenTwo}
    ELSE {Instruction(gate, <<At(free, i)>>, IF gate \in {"rx", "ry", "rz"} THEN <<a>> ELSE <<>>) :
            gate \in SampledGenSingle, a \in SampledAngles}

IdleGen ==
    /\ gen_pc = "off"
    /\ gen_num_qubits = 0
    /\ gen_depth = 0
    /\ gen_layer = 0
    /\ free_qubits = <<>>
    /\ gen_i = 0
    /\ gen_qc = <<>>
    /\ gen_layer_of = <<>>

InitGen ==
    /\ gen_pc = "layer"
    /\ gen_num_qubits \in SampledGenQubits
    /\ gen_depth \in 1..MaxGenDepth
    /\ gen_layer = 0
    /\ free_qubits = <<>>
    /\ gen_i = 0
    /\ gen_qc = <<>>
    /\ gen_layer_of = <<>>

\* the top of one round of "for _ in range(self.depth)"
GenShuffle ==
    /\ gen_pc = "layer"
    /\ gen_layer < gen_depth
    /\ free_qubits' \in shuffled(gen_num_qubits)
    /\ gen_i' = 0
    /\ gen_pc' = "place"
    /\ UNCHANGED <<gen_num_qubits, gen_depth, gen_layer, gen_qc, gen_layer_of>>
    /\ UNCHANGED <<dsvars, pxvars, bvars, labvars, parsevars, jobvars>>

\* one round of "while i < len(free_qubits)"; the round that uses up
\* free_qubits ends the layer
GenPlace ==
    /\ gen_pc = "place"
    /\ gen_i < Len(free_qubits)
    /\ \E use_two_qubit \in use_two_qubit_choices(free_qubits, gen_i) :
         \E instr \in gen_instructions(free_qubits, gen_i, use_two_qubit) :
            /\ gen_qc' = Append(gen_qc, instr)
            /\ gen_layer_of' = Append(gen_layer_of, gen_layer)
            /\ gen_i' = gen_next(gen_i, Len(instr.qubits))
            /\ IF gen_i' < Len(free_qubits)
               THEN UNCHANGED <<gen_pc, gen_layer>>
               ELSE gen_pc' = "layer" /\ gen_layer' = gen_layer + 1
    /\ UNCHANGED <<gen_num_qubits, gen_depth, free_qubits>>
    /\ UNCHANGED <<dsvars, pxvars, bvars, labvars, parsevars, jobvars>>

\* "return qc"
GenReturn ==
    /\ gen_pc = "layer"
    /\ gen_layer = gen_depth
    /\ gen_pc' = "done"
    /\ UNCHANGED <<gen_num_qubits, gen_depth, gen_layer, free_qubits, gen_i, gen_qc,
                   gen_layer_of>>
    /\ UNCHANGED <<dsvars, pxvars, bvars, labvars, parsevars, jobvars>>

(***************************************************************************)
(* Part VII: deepseek_rcg.py, generate_circuit(add_bugs = True) and        *)
(* generate_multiple_circuits on one RandomQuantumCircuitGenerator         *)
(*                                                                         *)
(* Each generate_circuit call builds new gate dicts, and the bug loop      *)
(* rebinds circuit to what inject_bug returned, so the local circuit is    *)
(* held by value with its own heap.                                        *)
(***************************************************************************)
\* Deepest circuit of the sessions explored.
MaxJobDepth == 1

\* the inputs explored
SampledJobQubits == {3}
SampledNBugs == {1, 2}
SampledNCircuits == {1, 2}

\* the bug types random.choice is let draw inside a dataset
SampledDrawnTypes == {"parameter_error", "control_error", "missing_gate"}

\* the gate dicts the generation loop is let append in a session
job_gates(n) ==
    {g \in generated_gates(n, 0) :
       g.type \in {"RX", "CNOT"} /\ g.qubits \in {<<0>>, <<0, 1>>}}

\* the clean circuits generate_circuit can build
clean_circuits(n, d) ==
    {Circuit(n, [i \in 1..d |-> [f[i] EXCEPT !.layer = i - 1]], [i \in 1..d |-> i], ms, {}) :
       f \in [1..d -> job_gates(n)], ms \in generated_measurements(n)}

GenerateCircuitCall(add_bugs, bug_types) ==
    [api |-> "generate_circuit", add_bugs |-> add_bugs, bug_types |-> bug_types,
     n_circuits |-> 0]
GenerateMultipleCall(n_circuits) ==
    [api |-> "generate_multiple_circuits", add_bugs |-> FALSE, bug_types |-> <<>>,
     n_circuits |-> n_circuits]

\* the bug_types arguments explored: every list of one or two listed types
SampledBugLists == SeqsUpTo(Range(BUG_TYPES), 2) \ {<<>>}

\* the sequences of calls explored; bug_types <<>> is Python's None
SampledScripts ==
    {<<GenerateCircuitCall(TRUE, l)>> : l \in SampledBugLists}
    \cup {<<GenerateCircuitCall(b, <<>>), GenerateMultipleCall(k)>> :
            b \in BOOLEAN, k \in SampledNCircuits}
    \cup {<<GenerateMultipleCall(k)>> : k \in SampledNCircuits}
    \cup {<<GenerateMultipleCall(1), GenerateMultipleCall(1)>>}

\* the list the bug loop runs through: bug_types when given, else n_bugs
\* rounds that each draw the type ("None")
bug_loop(bug_types) ==
    IF bug_types # <<>> THEN {bug_types}
    ELSE {[i \in 1..n_bugs |-> "None"] : n_bugs \in SampledNBugs}

\* one round of the bug loop on circuit c with the log bugs: the results of
\* the inject_bug call, or skipped |-> TRUE when
\* "random.random() < self.bug_injector.bug_probability" fails
bug_round(c, bugs, requested) ==
    IF requested = "None"
    THEN {[raised |-> FALSE, circuit |-> c, injected_bugs |-> bugs,
           bug_type |-> "None", skipped |-> TRUE]}
         \cup
         {[raised |-> r.raised, circuit |-> r.circuit, injected_bugs |-> r.injected_bugs,
           bug_type |-> r.bug_type, skipped |-> FALSE] :
            r \in UNION {inject_bug_as(c, bugs, bt) : bt \in SampledDrawnTypes}}
    ELSE {[raised |-> r.raised, circuit |-> r.circuit, injected_bugs |-> r.injected_bugs,
           bug_type |-> r.bug_type, skipped |-> FALSE] :
            r \in inject_bug(c, bugs, requested)}

\* circuit['has_bugs'] = add_bugs, and circuit['injected_bugs'] =
\* self.bug_injector.injected_bugs.copy() when add_bugs; calls, performed and
\* changed tell what was done to the circuit
Labelled(add_bugs, bugs, calls, performed, changed) ==
    [has_bugs |-> add_bugs, has_log |-> add_bugs,
     injected_bugs |-> IF add_bugs THEN bugs ELSE <<>>,
     calls |-> calls, performed |-> performed, changed |-> changed]

NoCircuit == Circuit(0, <<>>, <<>>, <<>>, {})
NoApi == GenerateCircuitCall(FALSE, <<>>)

IdleJob ==
    /\ job_pc = "off"
    /\ job_n_qubits = 0
    /\ job_depth = 0
    /\ job_script = <<>>
    /\ job_api = NoApi
    /\ job_todo = <<>>
    /\ job_circuit = NoCircuit
    /\ job_clean = <<>>
    /\ job_bugs = <<>>
    /\ job_calls = <<>>
    /\ job_done = <<>>
    /\ job_left = 0
    /\ circuits = <<>>

InitJob ==
    /\ job_pc = "idle"
    /\ job_n_qubits \in SampledJobQubits
    /\ job_depth \in 0..MaxJobDepth
    /\ job_script \in SampledScripts
    /\ job_api = NoApi
    /\ job_todo = <<>>
    /\ job_circuit = NoCircuit
    /\ job_clean = <<>>
    /\ job_bugs = <<>>
    /\ job_calls = <<>>
    /\ job_done = <<>>
    /\ job_left = 0
    /\ circuits = <<>>

\* the generation part of generate_circuit, up to "if add_bugs:"
JobBuild(add_bugs, bug_types) ==
    /\ \E c \in clean_circuits(job_n_qubits, job_depth) :
         /\ job_circuit' = c
         /\ job_clean' = Deref(c.heap, c.gates)
    /\ job_todo' \in IF add_bugs THEN bug_loop(bug_types) ELSE {<<>>}
    /\ job_calls' = <<>>
    /\ job_done' = <<>>

\* a caller's generate_circuit(add_bugs, bug_types), up to the bug loop;
\* without add_bugs the call returns at once
JobGenerateCircuit ==
    /\ job_pc = "idle"
    /\ job_script # <<>>
    /\ Head(job_script).api = "generate_circuit"
    /\ job_api' = Head(job_script)
    /\ job_script' = Tail(job_script)
    /\ JobBuild(Head(job_script).add_bugs, Head(job_script).bug_types)
    /\ job_pc' = IF Head(job_script).add_bugs THEN "bugs" ELSE "idle"
    /\ UNCHANGED <<job_n_qubits, job_depth, job_bugs, job_left, circuits>>
    /\ UNCHANGED <<dsvars, pxvars, bvars, labvars, parsevars, genvars>>

\* one round of either bug loop of generate_circuit; an exception of
\* inject_bug leaves generate_circuit and its caller
JobInject ==
    /\ job_pc = "bugs"
    /\ job_todo # <<>>
    /\ \E r \in bug_round(job_circuit, job_bugs, Head(job_todo)) :
         /\ job_pc' = IF r.raised THEN "raised" ELSE "bugs"
         /\ job_circuit' = IF r.raised THEN job_circuit ELSE r.circuit
         /\ job_bugs' = r.injected_bugs
         /\ job_calls' = IF r.raised \/ r.skipped THEN job_calls
                         ELSE Append(job_calls, r.bug_type)
         /\ job_done' = SubSeq(r.injected_bugs, Len(job_bugs) - Len(job_done) + 1,
                               Len(r.injected_bugs))
    /\ job_todo' = Tail(job_todo)
    /\ UNCHANGED <<job_n_qubits, job_depth, job_script, job_api, job_clean, job_left,
                   circuits>>
    /\ UNCHANGED <<dsvars, pxvars, bvars, labvars, parsevars, genvars>>

\* "return circuit" after the bug loop; in generate_multiple_circuits the
\* rest of the round follows: the labels, the copy of the injector's log,
\* its clear() and circuits.append(circuit)
JobReturn ==
    /\ job_pc = "bugs"
    /\ job_todo = <<>>
    /\ IF job_api.api = "generate_circuit"
       THEN /\ job_pc' = "idle"
            /\ UNCHANGED <<job_bugs, job_left, circuits>>
       ELSE /\ job_pc' = "multi"
            /\ circuits' = Append(circuits,
                  Labelled(TRUE, job_bugs, job_calls, job_done,
                           Deref(job_circuit.heap, job_circuit.gates) # job_clean))
            /\ job_bugs' = <<>>
            /\ job_left' = job_left - 1
    /\ UNCHANGED <<job_n_qubits, job_depth, job_script, job_api, job_todo, job_circuit,
                   job_clean, job_calls, job_done>>
    /\ UNCHANGED <<dsvars, pxvars, bvars, labvars, parsevars, genvars>>

\* a caller's generate_multiple_circuits(n_circuits), up to its loop
JobMultiple ==
    /\ job_pc = "idle"
    /\ job_script # <<>>
    /\ Head(job_script).api = "generate_multiple_circuits"
    /\ job_api' = Head(job_script)
    /\ job_script' = Tail(job_script)
    /\ job_left' = Head(job_script).n_circuits
    /\ circuits' = <<>>
    /\ job_pc' = "multi"
    /\ UNCHANGED <<job_n_qubits, job_depth, job_todo, job_circuit, job_clean, job_bugs,
                   job_calls, job_done>>
    /\ UNCHANGED <<dsvars, pxvars, bvars, labvars, parsevars, genvars>>

\* the top of one round of "for i in range(n_circuits)":
\* "add_bugs = random.random() < bug_ratio", then generate_circuit up to its
\* bug loop; without add_bugs the round ends with the labels and the append
JobNextCircuit ==
    /\ job_pc = "multi"
    /\ job_left > 0
    /\ \E add_bugs \in BOOLEAN :
         /\ JobBuild(add_bugs, <<>>)
         /\ IF add_bugs
            THEN job_pc' = "bugs" /\ UNCHANGED <<job_left, circuits>>
            ELSE /\ job_pc' = "multi"
                 /\ job_left' = job_left - 1
                 /\ circuits' = Append(circuits, Labelled(FALSE, job_bugs, <<>>, <<>>, FALSE))
    /\ UNCHANGED <<job_n_qubits, job_depth, job_script, job_api, job_bugs>>
    /\ UNCHANGED <<dsvars, pxvars, bvars, labvars, parsevars, genvars>>

\* "return circuits"
JobMultipleReturn ==
    /\ job_pc = "multi"
    /\ job_left = 0
    /\ job_pc' = "idle"
    /\ UNCHANGED <<job_n_qubits, job_depth, job_script, job_api, job_todo, job_circuit,
                   job_clean, job_bugs, job_calls, job_done, job_left, circuits>>
    /\ UNCHANGED <<dsvars, pxvars, bvars, labvars, parsevars, genvars>>

NoCall == [heap |-> <<>>, measurements |-> <<>>, injected_bugs |-> <<>>]
NoReturn == [gates |-> <<>>, keys |-> {}]

InitDeepseek ==
    /\ pc = "gen"
    /\ n_qubits \in 1..DefaultQubits
    /\ depth \in 0..MaxDepth
    /\ heap = <<>>
    /\ gates = <<>>
    /\ measurements = <<>>
    /\ injected_bugs = <<>>
    /\ bug_type = "None"
    /\ pre = NoCall
    /\ ret = NoReturn
    /\ raised = FALSE

\* one round of "for _ in range(self.depth)"
GenerateGate ==
    /\ pc = "gen"
    /\ Len(gates) < depth
    /\ \E gate \in generated_gates(n_qubits, Len(gates)) :
         /\ heap' = Append(heap, gate)
         /\ gates' = Append(gates, Len(heap) + 1)
    /\ UNCHANGED <<pc, n_qubits, depth, measurements, injected_bugs, bug_type,
                   pre, ret, raised>>
    /\ UNCHANGED <<pxvars, bvars, xvars>>

\* "for q in range(self.n_qubits): circuit['measurements'].append(...)" and
\* the return of the clean circuit
AddMeasurements ==
    /\ pc = "gen"
    /\ Len(gates) = depth
    /\ measurements' \in generated_measurements(n_qubits)
    /\ pc' = "ready"
    /\ UNCHANGED <<n_qubits, depth, heap, gates, injected_bugs, bug_type,
                   pre, ret, raised>>
    /\ UNCHANGED <<pxvars, bvars, xvars>>

\* a caller's QuantumBugInjector.inject_bug(circuit, bug_type) on the
\* generated circuit
InjectBug ==
    /\ pc = "ready"
    /\ \E requested \in RequestedTypes :
         \E r \in inject_bug(Circuit(n_qubits, heap, gates, measurements, {}),
                             injected_bugs, requested) :
            /\ pre' = [heap |-> heap, measurements |-> measurements,
                       injected_bugs |-> injected_bugs]
            /\ heap' = r.circuit.heap
            /\ measurements' = r.circuit.measurements
            /\ ret' = [gates |-> r.circuit.gates, keys |-> r.circuit.keys]
            /\ injected_bugs' = r.injected_bugs
            /\ raised' = r.raised
            /\ bug_type' = r.bug_type
    /\ pc' = "done"
    /\ UNCHANGED <<n_qubits, depth, gates>>
    /\ UNCHANGED <<pxvars, bvars, xvars>>


IdleDeepseek ==
    /\ pc = "off"
    /\ n_qubits = 0
    /\ depth = 0
    /\ heap = <<>>
    /\ gates = <<>>
    /\ measurements = <<>>
    /\ injected_bugs = <<>>
    /\ bug_type = "None"
    /\ pre = NoCall
    /\ ret = NoReturn
    /\ raised = FALSE

vars == <<dsvars, pxvars, bvars, xvars>>

Init ==
    \/ InitDeepseek /\ IdlePerplexity /\ IdleBuild /\ IdleLab /\ IdleParse /\ IdleGen /\ IdleJob
    \/ IdleDeepseek /\ InitPerplexity /\ IdleBuild /\ IdleLab /\ IdleParse /\ IdleGen /\ IdleJob
    \/ IdleDeepseek /\ IdlePerplexity /\ InitBuild /\ IdleLab /\ IdleParse /\ IdleGen /\ IdleJob
    \/ IdleDeepseek /\ IdlePerplexity /\ IdleBuild /\ InitLab /\ IdleParse /\ IdleGen /\ IdleJob
    \/ IdleDeepseek /\ IdlePerplexity /\ IdleBuild /\ IdleLab /\ InitParse /\ IdleGen /\ IdleJob
    \/ IdleDeepseek /\ IdlePerplexity /\ IdleBuild /\ IdleLab /\ IdleParse /\ InitGen /\ IdleJob
    \/ IdleDeepseek /\ IdlePerplexity /\ IdleBuild /\ IdleLab /\ IdleParse /\ IdleGen /\ InitJob

Next ==
    \/ GenerateGate \/ AddMeasurements \/ InjectBug
    \/ PxCall \/ PxAttempt \/ PxBreak \/ PxReturn
    \/ ChatgptPlace \/ QcgPlace \/ RcgPlace \/ BuildReturn
    \/ LabRound \/ LabMeasure \/ LabInjectBug
    \/ ParseGateList \/ PickGate
    \/ GenShuffle \/ GenPlace \/ GenReturn
    \/ JobGenerateCircuit \/ JobInject \/ JobReturn \/ JobMultiple \/ JobNextCircuit \/ JobMultipleReturn

Spec == Init /\ [][Next]_vars

(***************************************************************************)
(* Claims about QuantumBugInjector.inject_bug (deepseek_rcg.py)            *)
(***************************************************************************)
\* the call returned (or raised) on an input circuit with at least one gate
CalledOnGates == pc = "done" /\ gates # <<>>

\* the caller's circuit as it reads after / before the call
InputGatesNow == Deref(heap, gates)
InputGatesBefore == Deref(pre.heap, gates)
ReturnedGates == Deref(heap, ret.gates)

\* C1: inject_bug leaves the caller's circuit untouched: for every bug type
\* and every input circuit with at least one gate, after the call the input
\* circuit's gates (same length and order by construction of the list copy)
\* have the type, qubits, parameter and flags they had before the call, and
\* its measurements list is what it was before the call.
C1_OriginalUntouched ==
    CalledOnGates =>
        /\ InputGatesNow = InputGatesBefore
        /\ measurements = pre.measurements

\* C2: 'parameter_error' on a circuit with at least one gate and no RX, RY,
\* RZ or CPHASE gate returns gates equal to the input's and appends no bug
\* record to injected_bugs.
NoParametricGate ==
    \A i \in 1..Len(gates) : pre.heap[gates[i]].type \notin {"RX", "RY", "RZ", "CPHASE"}

C2_NoOpNullRecord ==
    (CalledOnGates /\ bug_type = "parameter_error" /\ NoParametricGate) =>
        /\ ~raised
        /\ ReturnedGates = InputGatesBefore
        /\ injected_bugs = pre.injected_bugs

\* C4: inject_bug with a bug_type that is not in BUG_TYPES raises an error,
\* appends no record to injected_bugs and performs no mutation.
C4_UnknownKindFailsFast ==
    (pc = "done" /\ bug_type \notin Range(BUG_TYPES)) =>
        /\ raised
        /\ injected_bugs = pre.injected_bugs
        /\ heap = pre.heap
        /\ measurements = pre.measurements

\* C10: after inject_bug(circuit, 'gate_error') on a circuit produced by
\* generate_circuit, every gate has a 'parameter' entry if and only if its
\* type requires one (RX, RY, RZ, CPHASE).
C10_ParameterIffRequired ==
    (pc = "done" /\ bug_type = "gate_error") =>
        \A i \in 1..Len(ReturnedGates) :
            ReturnedGates[i].has_param <=> RequiresParameter(ReturnedGates[i].type)

\* the clean-state half of C10's premise: what generate_circuit returns
GeneratedParameterIffRequired ==
    pc = "ready" =>
        \A i \in 1..Len(gates) :
            heap[gates[i]].has_param <=> RequiresParameter(heap[gates[i]].type)

(***************************************************************************)
(* Claims about BugInjector.inject_bugs (perplexity_rcg.py)                *)
(***************************************************************************)
\* arities of the gate names of each program
PxArity(name) == IF name \in {"cx", "cz"} THEN 2 ELSE 1
DsArity(type) == IF type \in Range(two_qubit_gates) THEN 2 ELSE 1

\* an iteration of the loop of inject_bugs has run
Attempted == px_pc \in {"loop", "returned"} /\ attempts >= 1

\* the chosen bug kind has no target anywhere in the working circuit
NoTargetFor(bug_choice, data) ==
    \/ bug_choice = "angle_perturbation" /\ rot_indices(data) = {}
    \/ bug_choice = "swap_control_target" /\ ctrl_indices(data) = {}
    \/ bug_choice = "gate_replacement"
         /\ \A i \in 1..Len(data) : data[i].name \notin {"h", "x", "cx", "cz"}
    \/ bug_choice \in {"gate_replacement", "gate_deletion"} /\ data = <<>>

\* C3, the no-op half: an attempt without a valid target returns no entry,
\* an attempt that returns no entry leaves the working circuit and the log
\* as they were, the loop is left after it only when all num_bugs attempts
\* are done, and the log never has more than num_bugs entries.
C3_NoTargetIsNoOp ==
    /\ Len(bug_log) <= num_bugs
    /\ px_pc = "raised" => attempts = 0
    /\ Attempted =>
        /\ NoTargetFor(last.bug_choice, last.before) => last.log_entry = None
        /\ last.log_entry = None =>
             /\ new_circ = last.before
             /\ bug_log = last.log
             /\ px_pc = "returned" => attempts = num_bugs

\* C3: in inject_bugs an attempt whose bug kind has no valid target leaves
\* the working circuit unchanged, appends nothing and does not raise, and
\* the loop goes on; the log never has more than num_bugs entries and
\* every entry describes a mutation that was applied (the working circuit
\* differs from what it was before the attempt that logged the entry).
C3_LogOnlyAppliedMutations ==
    /\ C3_NoTargetIsNoOp
    /\ (Attempted /\ last.log_entry # None) =>
         /\ bug_log = Append(last.log, last.log_entry)
         /\ new_circ # last.before

(***************************************************************************)
(* Claims about both injectors                                             *)
(***************************************************************************)
\* C9: gate substitution never changes arity: for every op substituted by
\* _inject_gate_error (deepseek_rcg) on a clean circuit and by
\* _bug_gate_replacement (perplexity_rcg), the arity of the new kind equals
\* the arity of the old kind and the op's qubit list is unchanged.
C9_SubstitutionKeepsArity ==
    /\ (CalledOnGates /\ bug_type = "gate_error") =>
         /\ ~raised
         /\ ret.gates = gates
         /\ \A i \in 1..Len(gates) :
              /\ DsArity(heap[gates[i]].type) = DsArity(pre.heap[gates[i]].type)
              /\ heap[gates[i]].qubits = pre.heap[gates[i]].qubits
              /\ Len(heap[gates[i]].qubits) = DsArity(heap[gates[i]].type)
    /\ (Attempted /\ last.bug_choice = "gate_replacement") =>
         /\ Len(new_circ) = Len(last.before)
         /\ \A i \in 1..Len(new_circ) :
              /\ PxArity(new_circ[i].name) = PxArity(last.before[i].name)
              /\ new_circ[i].qubits = last.before[i].qubits

\* a two-qubit gate was substituted by _inject_gate_error
C9_Witness ==
    /\ CalledOnGates /\ bug_type = "gate_error"
    /\ \E i \in 1..Len(gates) :
         /\ heap[gates[i]].type # pre.heap[gates[i]].type
         /\ Len(heap[gates[i]].qubits) = 2

\* a cx was replaced by a cz in _bug_gate_replacement
C9_WitnessReplacement ==
    /\ Attempted /\ last.bug_choice = "gate_replacement" /\ last.log_entry # None
    /\ \E i \in 1..Len(new_circ) : last.before[i].name = "cx" /\ new_circ[i].name = "cz"

(***************************************************************************)
(* Claims about build_quantum_circuit                                      *)
(***************************************************************************)
\* a build with no bug injection: quantum_circuit_generator, or chatgpt_rcg
\* with bug_rate = 0
BugFreeBuild ==
    b_pc # "off" /\ (cfg.prog = "qcg" \/ (cfg.prog = "chatgpt" /\ cfg.bug_rate = 0))

\* the palette holds only gates the called program knows
ValidPalette ==
    Range(cfg.selected_gates) \subseteq
        (IF cfg.prog = "chatgpt" THEN VALID_GATES ELSE Range(available_gates))

GateOps == {i \in 1..Len(qc) : qc[i].name # "measure"}

\* C5: in a bug-free circuit every operation placed from root qubit q with
\* arity k acts on exactly q, (q+1) mod N, ..., (q+k-1) mod N in that
\* order; its qubits are in 0..N-1, pairwise distinct, and as many as the
\* arity of the gate.
C5_CleanInvariant ==
    BugFreeBuild =>
        /\ \A i \in 1..Len(placed) :
              placed[i].after > placed[i].before =>
                 LET p == placed[i]
                     op == qc[p.after]
                     k == Arity(p.gate)
                 IN  /\ p.after = p.before + 1
                     /\ op.name = p.gate
                     /\ op.qubits = [j \in 1..k |-> (p.qubit + j - 1) % cfg.num_qubits]
        /\ \A i \in GateOps :
              /\ Len(qc[i].qubits) = Arity(qc[i].name)
              /\ \A j \in 1..Len(qc[i].qubits) : qc[i].qubits[j] \in 0..(cfg.num_qubits - 1)
              /\ Cardinality(Range(qc[i].qubits)) = Len(qc[i].qubits)
        /\ \A i \in GateOps : \E j \in 1..Len(placed) : placed[j].after = i

\* a finished bug-free chatgpt_rcg build on three qubits holds a ccx rooted
\* at the last qubit, wrapping around to qubits 0 and 1
C5_Witness ==
    /\ b_pc = "done"
    /\ cfg.prog = "chatgpt"
    /\ cfg.bug_rate = 0
    /\ cfg.num_qubits = 3
    /\ \E i \in 1..Len(placed) :
          /\ placed[i].gate = "ccx"
          /\ placed[i].qubit = 2
          /\ placed[i].after > placed[i].before
          /\ qc[placed[i].after] = Op("ccx", <<2, 0, 1>>)

\* C6: a placement whose gate needs more qubits than the circuit has is
\* skipped without raising: the gate operations of a bug-free circuit are as
\* many as the placements whose gate arity is at most num_qubits; with one
\* qubit and the palette [cx] the circuit has no gate operation.
C6_ArityGuard ==
    (BugFreeBuild /\ ValidPalette) =>
        /\ b_pc \notin {"exit", "raised"}
        /\ Cardinality(GateOps) =
              Cardinality({i \in 1..Len(placed) : Arity(placed[i].gate) <= cfg.num_qubits})
        /\ \A i \in 1..Len(placed) :
              Arity(placed[i].gate) > cfg.num_qubits => placed[i].after = placed[i].before
        /\ (cfg.num_qubits = 1 /\ cfg.selected_gates = <<"cx">>) => GateOps = {}

\* a finished one-qubit build over the palette [cx]: every placement was
\* made and skipped
C6_Witness ==
    /\ b_pc = "done"
    /\ BugFreeBuild
    /\ cfg.num_qubits = 1
    /\ cfg.selected_gates = <<"cx">>
    /\ Len(placed) = cfg.circuit_depth
    /\ cfg.circuit_depth >= 1
    /\ GateOps = {}

\* C8: under the sequential strategy the placements are made layer by layer,
\* qubit by qubit, and every placement of layer L selects the palette entry
\* at index L mod len(palette).
C8_SequentialPalette ==
    (b_pc # "off" /\ cfg.gate_application = "sequential") =>
        \A i \in 1..Len(placed) :
           /\ placed[i].layer = (i - 1) \div cfg.num_qubits
           /\ placed[i].qubit = (i - 1) % cfg.num_qubits
           /\ placed[i].gate =
                 At(cfg.selected_gates, placed[i].layer % Len(cfg.selected_gates))

\* a finished sequential build whose layers went once around a two-gate
\* palette and came back to its first entry
C8_Witness ==
    /\ b_pc = "done"
    /\ cfg.gate_application = "sequential"
    /\ Len(cfg.selected_gates) = 2
    /\ \E i, j, k \in 1..Len(placed) :
          /\ placed[i].layer = 0 /\ placed[i].gate = cfg.selected_gates[1]
          /\ placed[j].layer = 1 /\ placed[j].gate = cfg.selected_gates[2]
          /\ placed[k].layer = 2 /\ placed[k].gate = cfg.selected_gates[1]

(***************************************************************************)
(* Claims about the single mutations                                       *)
(***************************************************************************)
\* the last iteration of inject_bugs chose bug_choice and logged an entry
Logged(bug_choice) ==
    Attempted /\ last.bug_choice = bug_choice /\ last.log_entry # None

\* the call of inject_bug for bug type bt returned and appended a record
Recorded(bt) ==
    /\ CalledOnGates /\ bug_type = bt /\ ~raised
    /\ Len(injected_bugs) = Len(pre.injected_bugs) + 1

LastRecord == injected_bugs[Len(injected_bugs)]

\* C11: whenever _bug_gate_replacement returns a record, the instruction at
\* the record's index after the call has the name new_name, and new_name
\* differs from old_name.
C11_ReplacementTruthful ==
    Logged("gate_replacement") =>
        /\ At(new_circ, last.log_entry.index).name = last.log_entry.new_name
        /\ last.log_entry.new_name # last.log_entry.old_name

C12_WitnessDeletion ==
    /\ Logged("gate_deletion")
    /\ Len(last.before) = 2
    /\ last.log_entry.index = 0
    /\ At(last.before, 0) # At(last.before, 1)

\* the gate a placement applied the wrong_target bug to, "none" when the
\* placement is not one the bug acts on (gate of one qubit, skipped, no bug)
RetargetedGate(p) ==
    LET g == IF cfg.prog = "rcg" THEN p.bug_action ELSE p.gate
        on == IF cfg.prog = "rcg" THEN cfg.bug_wrong_target
              ELSE cfg.prog = "chatgpt" /\ p.bug_action = "wrong_target"
    IN  IF on /\ g \in {"cx", "cz", "ccx"} /\ fits(g, cfg.num_qubits) THEN g ELSE "none"

\* C17: the wrong_target bug retargets to a different valid qubit the op
\* does not use: every placement it acts on (cx / cz with num_qubits >= 2,
\* ccx with num_qubits >= 3) places an op whose qubits are in
\* 0..num_qubits-1 and pairwise distinct and whose target differs from the
\* bug-free target.
C17_WrongTargetValid ==
    b_pc # "off" =>
        \A i \in 1..Len(placed) :
           RetargetedGate(placed[i]) # "none" =>
              LET p == placed[i]
                  k == Arity(RetargetedGate(p))
              IN  /\ p.after = p.before + 1
                  /\ LET op == qc[p.after]
                     IN  /\ Len(op.qubits) = k
                         /\ \A j \in 1..k : op.qubits[j] \in 0..(cfg.num_qubits - 1)
                         /\ Cardinality(Range(op.qubits)) = k
                         /\ op.qubits[k] # (p.qubit + k - 1) % cfg.num_qubits

\* C13: inject_bug(circuit, 'extra_gate') on any circuit with n_qubits >= 1,
\* the empty gate list included, returns a gate list one longer than the
\* input's: the input with one new op inserted, flagged is_bug, whose qubits
\* are in 0..n_qubits-1, pairwise distinct and as many as its kind's arity.
C13_InsertionAlwaysValid ==
    (pc = "done" /\ bug_type = "extra_gate") =>
        /\ ~raised
        /\ Len(ret.gates) = Len(gates) + 1
        /\ \E idx \in PyRange(Len(ret.gates)) :
              LET new == At(ReturnedGates, idx)
              IN  /\ ReturnedGates = Insert(InputGatesBefore, idx, new)
                  /\ "is_bug" \in new.flags
                  /\ Len(new.qubits) = DsArity(new.type)
                  /\ \A j \in 1..Len(new.qubits) : new.qubits[j] \in PyRange(n_qubits)
                  /\ Cardinality(Range(new.qubits)) = Len(new.qubits)

\* the same on input circuits with at least one gate
C13_InsertionOnGates == CalledOnGates => C13_InsertionAlwaysValid

\* C15: whenever _inject_qubit_error returns on a clean circuit, the op at
\* the record's location has as many qubits as before, all in
\* 0..n_qubits-1 and pairwise distinct; its qubit list differs from the
\* previous one in exactly one position, by an index the op did not use
\* before; nothing else of that op and no other op changes.
C15_RetargetValid ==
    (CalledOnGates /\ bug_type = "qubit_error" /\ ~raised) =>
        /\ Recorded("qubit_error")
        /\ ret.gates = gates
        /\ LastRecord.location \in PyRange(Len(gates))
        /\ LET ref == At(gates, LastRecord.location)
               old == pre.heap[ref]
               new == heap[ref]
               moved == {j \in 1..Len(old.qubits) : new.qubits[j] # old.qubits[j]}
           IN  /\ Len(new.qubits) = Len(old.qubits)
               /\ \A j \in 1..Len(new.qubits) : new.qubits[j] \in PyRange(n_qubits)
               /\ Cardinality(Range(new.qubits)) = Len(new.qubits)
               /\ Cardinality(moved) = 1
               /\ \A j \in moved : new.qubits[j] \notin Range(old.qubits)
               /\ new = [old EXCEPT !.qubits = new.qubits]
               /\ \A r \in 1..Len(heap) : r # ref => heap[r] = pre.heap[r]

\* the control of a two-qubit gate was moved to the one unused qubit
C15_Witness ==
    /\ Recorded("qubit_error")
    /\ LET ref == At(gates, LastRecord.location)
       IN  /\ Len(heap[ref].qubits) = 2
           /\ heap[ref].qubits[1] # pre.heap[ref].qubits[1]
           /\ heap[ref].qubits[2] = pre.heap[ref].qubits[2]

\* no op of the input circuit has an unused qubit to move to
NoRetargetCandidate ==
    \A i \in 1..Len(gates) : Len(InputGatesBefore[i].qubits) >= n_qubits

\* C16: inject_bug(circuit, 'qubit_error') on a circuit whose ops have no
\* unused qubit to move to (one qubit with single-qubit ops, two qubits with
\* two-qubit ops) returns the circuit unchanged without raising.
C16_RetargetNoCandidateNoOp ==
    (CalledOnGates /\ bug_type = "qubit_error" /\ NoRetargetCandidate) =>
        /\ ~raised
        /\ heap = pre.heap
        /\ ReturnedGates = InputGatesBefore

\* C14: _bug_swap_control_target on a circuit with at least one cx / cz
\* reverses the qubit order of exactly one such op and changes nothing
\* else; the record's new_qubits is the reversal of its old_qubits and
\* equals the op's qubits after the call.
C14_SwapReversesOne ==
    (Attempted /\ last.bug_choice = "swap_control_target"
       /\ ctrl_indices(last.before) # {}) =>
        /\ last.log_entry # None
        /\ LET e == last.log_entry
               old == At(last.before, e.index)
           IN  /\ e.index \in ctrl_indices(last.before)
               /\ e.old_qubits = old.qubits
               /\ e.new_qubits = <<e.old_qubits[2], e.old_qubits[1]>>
               /\ At(new_circ, e.index).qubits = e.new_qubits
               /\ new_circ = SetAt(last.before, e.index, [old EXCEPT !.qubits = e.new_qubits])
               /\ e.name = old.name

\* a cx on qubits [1, 0] became a cx on qubits [0, 1]
C14_Witness ==
    /\ Logged("swap_control_target")
    /\ At(last.before, last.log_entry.index) = StandardGate("cx", <<1, 0>>)
    /\ At(new_circ, last.log_entry.index) = StandardGate("cx", <<0, 1>>)

\* C18: the bug records of deepseek_rcg capture the state before and after
\* the mutation: original_gate / wrong_gate are the gate's type before /
\* after _inject_gate_error, original_qubits / wrong_qubits the qubit list
\* before / after _inject_qubit_error, original_basis / wrong_basis the
\* basis before / after _inject_measurement_error, and in each record the
\* original value differs from the wrong one.
C18_RecordsBeforeAfter ==
    /\ Recorded("gate_error") =>
         LET ref == At(gates, LastRecord.location)
         IN  /\ LastRecord.original_gate = pre.heap[ref].type
             /\ LastRecord.wrong_gate = heap[ref].type
             /\ LastRecord.original_gate # LastRecord.wrong_gate
    /\ Recorded("qubit_error") =>
         LET ref == At(gates, LastRecord.location)
         IN  /\ LastRecord.original_qubits = pre.heap[ref].qubits
             /\ LastRecord.wrong_qubits = heap[ref].qubits
             /\ LastRecord.original_qubits # LastRecord.wrong_qubits
    /\ Recorded("measurement_error") =>
         /\ LastRecord.original_basis = At(pre.measurements, LastRecord.location).basis
         /\ LastRecord.wrong_basis = At(measurements, LastRecord.location).basis
         /\ LastRecord.original_basis # LastRecord.wrong_basis

\* the 'wrong' half of the records: each names the value after the call
C18_RecordsAfter ==
    /\ Recorded("gate_error") =>
         LastRecord.wrong_gate = heap[At(gates, LastRecord.location)].type
    /\ Recorded("qubit_error") =>
         LastRecord.wrong_qubits = heap[At(gates, LastRecord.location)].qubits
    /\ Recorded("measurement_error") =>
         LastRecord.wrong_basis = At(measurements, LastRecord.location).basis

\* C19: _inject_measurement_error on a circuit with at least one gate and
\* one measurement per qubit changes the basis of exactly one measurement
\* to a member of {X, Y, Z} different from its previous basis; the other
\* measurements, their number, the qubit each names and the gate sequence
\* are unchanged.
C19_OneBasisChanged ==
    (CalledOnGates /\ bug_type = "measurement_error") =>
        /\ Recorded("measurement_error")
        /\ Len(measurements) = Len(pre.measurements)
        /\ Len(measurements) = n_qubits
        /\ LET changed == {i \in 1..Len(measurements) :
                             measurements[i].basis # pre.measurements[i].basis}
           IN  /\ Cardinality(changed) = 1
               /\ changed = {LastRecord.location + 1}
               /\ \A i \in changed : measurements[i].basis \in Range(bases)
        /\ \A i \in 1..Len(measurements) :
              /\ measurements[i].qubit = pre.measurements[i].qubit
              /\ i # LastRecord.location + 1 => measurements[i] = pre.measurements[i]
        /\ ret.gates = gates
        /\ heap = pre.heap

\* the measurement of the last of three qubits went from basis Z to another
C19_Witness ==
    /\ Recorded("measurement_error")
    /\ n_qubits = 3
    /\ LastRecord.location = 2
    /\ At(pre.measurements, 2).basis = "Z"
    /\ At(measurements, 2).basis # "Z"

SelectedOnFullCircuit(bt) ==
    pc = "done" /\ bug_type = bt /\ n_qubits >= 3 /\ Len(gates) >= 2

\* the call appended exactly one record and its 'type' is the bug type
OneRecordOfType ==
    /\ ~raised
    /\ Len(injected_bugs) = Len(pre.injected_bugs) + 1
    /\ SubSeq(injected_bugs, 1, Len(pre.injected_bugs)) = pre.injected_bugs
    /\ LastRecord.type = bug_type

\* C21: every bug type of BUG_TYPES is selectable: on a circuit with at
\* least 3 qubits, at least 2 gates and one measurement per qubit,
\* inject_bug with that type (given, or drawn for bug_type = None)
\* completes without raising and appends exactly one record whose 'type'
\* is the selected type.
C21_EveryKindSelectable ==
    \A bt \in Range(BUG_TYPES) : SelectedOnFullCircuit(bt) => OneRecordOfType

\* the same for every bug type but control_error
C21_ImplementedKindsSelectable ==
    \A bt \in Range(BUG_TYPES) \ {"control_error"} :
       SelectedOnFullCircuit(bt) => OneRecordOfType


\* every gate operation of ops comes before every measurement, and each of
\* the n qubits is measured exactly once
MeasuredLast(ops, n) ==
    /\ \A i, j \in 1..Len(ops) :
          ops[i].name \notin {"measure", "barrier"} /\ ops[j].name = "measure" => i < j
    /\ \A q \in 0..(n - 1) :
          Cardinality({j \in 1..Len(ops) :
                         ops[j].name = "measure" /\ ops[j].qubits = <<q>>}) = 1

\* C22: measurements are the terminal step.  In every circuit returned by
\* chatgpt_rcg.build_quantum_circuit with measure = True, by gemini_rcg
\* generate_random_circuit and by gemini_rcg inject_bug, every gate
\* operation precedes every measurement and each qubit is measured exactly
\* once.
C22_MeasurementsTerminal ==
    /\ b_pc = "done" /\ cfg.prog = "chatgpt" /\ cfg.measure
          => MeasuredLast(qc, cfg.num_qubits)
    /\ lab_pc \in {"golden", "done"} => MeasuredLast(golden_qc, lab_num_qubits)
    /\ lab_pc = "done" => MeasuredLast(buggy_qc, lab_num_qubits)

\* inject_bug returned, for "over_rotation", a circuit that holds one more
\* gate than the two-qubit golden circuit it was given
C22_Witness ==
    /\ lab_pc = "done"
    /\ lab_bug_type = "over_rotation"
    /\ lab_num_qubits = 2
    /\ Cardinality(LabGateOps(buggy_qc)) > Cardinality(LabGateOps(golden_qc))
    /\ Cardinality(LabGateOps(golden_qc)) > 0

\* the gate operations of the circuit handed to inject_bug and of the
\* circuit it returned
GoldenGates == remove_final_measurements(golden_qc)
BuggyGates == remove_final_measurements(buggy_qc)

\* the call inject_bug(golden_qc, "swap") on a circuit with a gate has ended
SwapCalled ==
    lab_pc \in {"done", "raised"} /\ lab_bug_type = "swap" /\ GoldenGates # <<>>

\* C26: inject_bug with bug_type "swap" returns a circuit with as many gate
\* operations as its input, which differs from the input's gate sequence
\* only at the chosen index, where the operation is a Z gate.
C26_SwapReplacesWithZ ==
    SwapCalled =>
       /\ lab_pc = "done"
       /\ Len(BuggyGates) = Len(GoldenGates)
       /\ \A i \in 1..Len(GoldenGates) : i # lab_idx + 1 => BuggyGates[i] = GoldenGates[i]
       /\ At(BuggyGates, lab_idx).name = "z"

\* what the "swap" branch does: it draws an index of the input's gates and
\* raises, returning no circuit
C26_SwapRaises ==
    SwapCalled =>
       /\ lab_pc = "raised"
       /\ lab_idx \in 0..(Len(GoldenGates) - 1)
       /\ buggy_qc = <<>>

\* C23: for every input string parse_gate_list either raises ValueError
\* naming the unknown gates, or returns a non-empty list holding only
\* members of VALID_GATES, so that pick_gate never fails on the returned
\* palette under either strategy.
C23_PaletteValidated ==
    /\ parse_pc = "raised" => parsed.unknown # <<>>
    /\ parse_pc \in {"returned", "picked", "pick_raised"} =>
          parsed.gates # <<>> /\ Range(parsed.gates) \subseteq VALID_GATES
    /\ parse_pc # "pick_raised"

\* what the validation does ensure: a ValueError names unknown gates, a
\* returned list holds only members of VALID_GATES, and a gate picked from
\* it is one of them
C23_ReturnedNamesValid ==
    /\ parse_pc = "raised" =>
          parsed.unknown # <<>> /\ \A g \in Range(parsed.unknown) : g \notin VALID_GATES
    /\ parse_pc \in {"returned", "picked", "pick_raised"} =>
          Range(parsed.gates) \subseteq VALID_GATES
    /\ parse_pc = "picked" => picked \in Range(parsed.gates)


RECURSIVE SumArities(_)
SumArities(instrs) ==
    IF instrs = <<>> THEN 0 ELSE Len(instrs[1].qubits) + SumArities(Tail(instrs))

\* the instructions of round l that act on qubit q
TakesPart(l, q) ==
    {k \in 1..Len(gen_qc) : gen_layer_of[k] = l /\ q \in Range(gen_qc[k].qubits)}

\* C24: in the circuit RandomCircuitGenerator.generate returns, within each
\* of the depth layers every qubit index in [0, num_qubits) takes part in
\* exactly one instruction, so the arities sum to depth * num_qubits, and
\* every instruction has one or two qubits, in range and pairwise distinct.
C24_LayersDoNotOverlap ==
    gen_pc = "done" =>
       /\ \A l \in PyRange(gen_depth), q \in PyRange(gen_num_qubits) :
             Cardinality(TakesPart(l, q)) = 1
       /\ SumArities(gen_qc) = gen_depth * gen_num_qubits
       /\ \A k \in 1..Len(gen_qc) :
             /\ Len(gen_qc[k].qubits) \in {1, 2}
             /\ Range(gen_qc[k].qubits) \subseteq PyRange(gen_num_qubits)
             /\ Cardinality(Range(gen_qc[k].qubits)) = Len(gen_qc[k].qubits)

\* generate returned a two-layer circuit on three qubits whose second layer
\* holds a two-qubit gate followed by a one-qubit gate
C24_Witness ==
    /\ gen_pc = "done"
    /\ gen_depth = 2
    /\ gen_num_qubits = 3
    /\ \E k \in 1..(Len(gen_qc) - 1) :
          /\ gen_layer_of[k] = 1
          /\ Len(gen_qc[k].qubits) = 2
          /\ Len(gen_qc[k + 1].qubits) = 1


\* the positions whose 'parameter' the call changed
ParameterChanged ==
    {i \in 1..Len(gates) :
       \/ ReturnedGates[i].parameter # InputGatesBefore[i].parameter
       \/ ReturnedGates[i].has_param # InputGatesBefore[i].has_param}

\* C25: parameter_error on a circuit with at least one parametric gate
\* changes the 'parameter' of exactly one gate, whose type is RX, RY, RZ or
\* CPHASE; that gate's type and qubits, every other gate, and the length and
\* order of the sequence are unchanged; the record's wrong_parameter is
\* original_parameter plus error_magnitude and its location is the index of
\* the changed gate.
C25_OneParameterPerturbed ==
    (CalledOnGates /\ bug_type = "parameter_error" /\ ~NoParametricGate) =>
       /\ ~raised
       /\ Len(injected_bugs) = Len(pre.injected_bugs) + 1
       /\ ret.gates = gates
       /\ Cardinality(ParameterChanged) = 1
       /\ \A i \in ParameterChanged :
             /\ InputGatesBefore[i].type \in {"RX", "RY", "RZ", "CPHASE"}
             /\ ReturnedGates[i].type = InputGatesBefore[i].type
             /\ ReturnedGates[i].qubits = InputGatesBefore[i].qubits
             /\ LastRecord.location = i - 1
             /\ LastRecord.original_parameter = InputGatesBefore[i].parameter
             /\ LastRecord.wrong_parameter = ReturnedGates[i].parameter
       /\ \A i \in 1..Len(gates) :
             i \notin ParameterChanged => ReturnedGates[i] = InputGatesBefore[i]
       /\ LastRecord.wrong_parameter =
             LastRecord.original_parameter + LastRecord.error_magnitude

\* what the perturbation does ensure: the list keeps its length and order;
\* no gate but the one at the record's location is touched; that gate is of
\* type RX, RY, RZ or CPHASE, keeps its type and qubits, and its parameter
\* is the one it had plus the error drawn, which is the same parameter when
\* the error drawn is 0
C25_AtMostOnePerturbed ==
    (CalledOnGates /\ bug_type = "parameter_error" /\ ~NoParametricGate) =>
       /\ ~raised
       /\ Len(injected_bugs) = Len(pre.injected_bugs) + 1
       /\ ret.gates = gates
       /\ LastRecord.location \in PyRange(Len(gates))
       /\ ParameterChanged \subseteq {LastRecord.location + 1}
       /\ ParameterChanged = {} <=> LastRecord.error_magnitude = 0
       /\ LET i == LastRecord.location + 1
          IN  /\ InputGatesBefore[i].type \in {"RX", "RY", "RZ", "CPHASE"}
              /\ ReturnedGates[i].type = InputGatesBefore[i].type
              /\ ReturnedGates[i].qubits = InputGatesBefore[i].qubits
              /\ LastRecord.original_parameter = InputGatesBefore[i].parameter
              /\ LastRecord.wrong_parameter = ReturnedGates[i].parameter
       /\ \A i \in 1..Len(gates) :
             i # LastRecord.location + 1 => ReturnedGates[i] = InputGatesBefore[i]
       /\ LastRecord.wrong_parameter =
             LastRecord.original_parameter + LastRecord.error_magnitude


\* the placements of the run so far that reported bug b
PlacedWith(b) == {k \in 1..Len(placed) : placed[k].applied_bug = b}

\* the placements whose gate fits the register
PlacedFitting == {k \in 1..Len(placed) : Arity(placed[k].gate) <= cfg.num_qubits}

\* C27: bug accounting in chatgpt_rcg.build_quantum_circuit.  On return
\* total_gates is depth * num_qubits; each bug count is the number of
\* placements the bug was applied to, and a bug is applied only when it was
\* drawn for a placement that fits and that it can act on (wrong_target and
\* swap_controls need a multi-qubit gate, flip_to_x a single-qubit gate);
\* the gate operations number the fitting placements minus the drop_gate
\* count plus the insert_random_gate count; with bug_rate = 0 every count
\* is 0.
C27_BugAccounting ==
    (b_pc = "done" /\ cfg.prog = "chatgpt") =>
       /\ total_gates = cfg.circuit_depth * cfg.num_qubits
       /\ \A b \in Range(CHATGPT_BUG_TYPES) : bug_counts[b] = Cardinality(PlacedWith(b))
       /\ \A k \in 1..Len(placed) :
             placed[k].applied_bug # "None" =>
                /\ placed[k].applied_bug = placed[k].bug_action
                /\ k \in PlacedFitting
                /\ placed[k].applied_bug \in {"wrong_target", "swap_controls"}
                      => Arity(placed[k].gate) >= 2
                /\ placed[k].applied_bug = "flip_to_x" => Arity(placed[k].gate) = 1
       /\ Cardinality(GateOps) =
             Cardinality(PlacedFitting) - bug_counts["drop_gate"]
                + bug_counts["insert_random_gate"]
       /\ cfg.bug_rate = 0 => \A b \in Range(CHATGPT_BUG_TYPES) : bug_counts[b] = 0

\* a returned three-placement run in which one gate was dropped, one was
\* followed by an inserted gate, and one drew a bug that does not apply to
\* a single-qubit gate
C27_Witness ==
    /\ b_pc = "done" /\ cfg.prog = "chatgpt" /\ cfg.bug_rate > 0
    /\ bug_counts["drop_gate"] = 1
    /\ bug_counts["insert_random_gate"] = 1
    /\ \E k \in 1..Len(placed) :
          placed[k].bug_action = "wrong_target" /\ placed[k].applied_bug = "None"


\* C28: dataset labels are sound.  Every circuit of generate_multiple_circuits
\* with has_bugs = True carries an injected_bugs list of at least one record
\* and differs from the bug-free circuit it was built as, and every circuit
\* with has_bugs = False has had no mutation applied.
C28_LabelsSound ==
    \A k \in 1..Len(circuits) :
       /\ circuits[k].has_bugs =>
             /\ circuits[k].has_log
             /\ Len(circuits[k].injected_bugs) >= 1
             /\ circuits[k].changed
       /\ ~circuits[k].has_bugs => circuits[k].calls = <<>> /\ ~circuits[k].changed

\* what the labels do ensure: a circuit labelled has_bugs = False went
\* through no inject_bug call and carries no injected_bugs key, and a
\* circuit labelled has_bugs = True carries the key
C28_CleanLabelSound ==
    \A k \in 1..Len(circuits) :
       /\ circuits[k].has_bugs => circuits[k].has_log
       /\ ~circuits[k].has_bugs =>
             circuits[k].calls = <<>> /\ ~circuits[k].changed /\ ~circuits[k].has_log

\* C29: bug-log isolation across calls.  After any sequence of
\* generate_circuit and generate_multiple_circuits calls on one generator,
\* the injected_bugs list attached to a circuit of generate_multiple_circuits
\* holds exactly the records of the injections performed on that circuit,
\* in order.
C29_LogIsolated ==
    \A k \in 1..Len(circuits) :
       circuits[k].has_log => circuits[k].injected_bugs = circuits[k].performed

\* what the copy-and-clear does ensure: the attached list ends with the
\* records of the circuit's own injections, in order
C29_LogEndsWithOwnRecords ==
    \A k \in 1..Len(circuits) :
       circuits[k].has_log =>
          /\ Len(circuits[k].injected_bugs) >= Len(circuits[k].performed)
          /\ SubSeq(circuits[k].injected_bugs,
                    Len(circuits[k].injected_bugs) - Len(circuits[k].performed) + 1,
                    Len(circuits[k].injected_bugs)) = circuits[k].performed

\* the gates of the circuit the bug loop holds
JobGates == Deref(job_circuit.heap, job_circuit.gates)

IsMissingGate(bug_info) == bug_info.type = "missing_gate"
IsExtraGate(bug_info) == bug_info.type = "extra_gate"
IsMissingGateCall(bt) == bt = "missing_gate"
IsExtraGateCall(bt) == bt = "extra_gate"

\* every gate of the circuit has 1 or 2 qubit indices, all in [0, n_qubits)
\* and pairwise distinct
JobGatesValid ==
    \A i \in 1..Len(JobGates) :
       /\ Len(JobGates[i].qubits) \in {1, 2}
       /\ Range(JobGates[i].qubits) \subseteq PyRange(job_n_qubits)
       /\ Cardinality(Range(JobGates[i].qubits)) = Len(JobGates[i].qubits)

\* C30: structural validity under sequences of injections.  Starting from a
\* circuit of generate_circuit, after any sequence of inject_bug calls that
\* returned, every gate has 1 or 2 qubit indices, all in [0, n_qubits) and
\* pairwise distinct, and the gate count is depth minus the number of
\* missing_gate injections plus the number of extra_gate injections, the
\* injections being the inject_bug calls that returned.
C30_ValidAfterInjections ==
    job_pc \in {"bugs", "idle", "multi"} =>
       /\ JobGatesValid
       /\ job_circuit # NoCircuit =>
             Len(JobGates) = job_depth - Len(SelectSeq(job_calls, IsMissingGateCall))
                                + Len(SelectSeq(job_calls, IsExtraGateCall))

\* what the injections do ensure: the gates stay valid, and the gate count
\* is depth minus the number of missing_gate records plus the number of
\* extra_gate records the calls on this circuit logged; a call made on an
\* empty gate list returns without a record and without touching the list
C30_ValidAfterRecordedInjections ==
    job_pc \in {"bugs", "idle", "multi"} =>
       /\ JobGatesValid
       /\ job_circuit # NoCircuit =>
             /\ Len(JobGates) = job_depth - Len(SelectSeq(job_done, IsMissingGate))
                                   + Len(SelectSeq(job_done, IsExtraGate))
             /\ Len(job_done) <= Len(job_calls)
             /\ Len(job_done) < Len(job_calls) =>
                   \E k \in 0..Len(job_done) :
                      job_depth - Len(SelectSeq(SubSeq(job_done, 1, k), IsMissingGate))
                         + Len(SelectSeq(SubSeq(job_done, 1, k), IsExtraGate)) = 0

==============================================================================
